---------------------------- MODULE Spec2Model ----------------------------
(***************************************************************************)
(* A model of source/primordial.c: the primordial power spectrum module.   *)
(*                                                                         *)
(* Two specifications share the module:                                    *)
(*   SpecTable  primordial_init followed by primordial_spectrum_at_k       *)
(*              queries (the analytic table and the query layer);          *)
(*   Spec       primordial_inflation_solve_inflation and the routines it   *)
(*              calls, one action per statement group, with the external   *)
(*              integrator as a nondeterministic step.                     *)
(*                                                                         *)
(* Numbers.  The C doubles are modelled as fixed-point numbers: the real   *)
(* x is the integer x*ONE.  The elementary functions are computed in base  *)
(* two: Exp(x) is 2^x, Log(x) the floor of the binary logarithm, Sqrt the  *)
(* floor of the square root.  Log(Exp(x)) = x only for whole x and         *)
(* Exp(Log(x)) = x only for powers of two, as for any finite precision.    *)
(***************************************************************************)
EXTENDS Integers, Sequences, FiniteSets, TLC

(***************************************************************************)
(* Fixed-point arithmetic                                                  *)
(***************************************************************************)
\* the number of binary digits kept after the point
FracBits == 8
ONE == 2 ^ FracBits
HALF == ONE \div 2
PI == 3 * ONE

\* the results of a division by zero: x/0 for x # 0, and 0/0
Inf == 2 ^ 28
NaN == 0 - 2 ^ 30

Abs(x) == IF x < 0 THEN -x ELSE x
Sgn(x) == IF x < 0 THEN -1 ELSE IF x > 0 THEN 1 ELSE 0
Min(x, y) == IF x < y THEN x ELSE y

\* x * y and x / y of two doubles; a magnitude of Inf or more is infinite.
\* The products are split so that no intermediate value leaves the 32-bit
\* integers of the model checker.
Huge == Inf \div ONE
Mul(x, y) ==
  IF x = NaN \/ y = NaN THEN NaN
  ELSE IF Abs(x) >= Inf \/ Abs(y) >= Inf
  THEN (IF x = 0 \/ y = 0 THEN NaN ELSE Sgn(x) * Sgn(y) * Inf)
  ELSE LET a == Abs(x)
           b == Abs(y)
       IN  Sgn(x) * Sgn(y) *
             (IF a \div ONE > 0 /\ b > Inf \div (a \div ONE) THEN Inf
              ELSE Min(Inf, (a \div ONE) * b + (a % ONE) * (b \div ONE)
                              + ((a % ONE) * (b % ONE)) \div ONE))
Div(x, y) ==
  IF x = NaN \/ y = NaN THEN NaN
  ELSE IF y = 0 THEN (IF x = 0 THEN NaN ELSE Sgn(x) * Inf)
  ELSE IF Abs(x) >= Inf THEN (IF Abs(y) >= Inf THEN NaN ELSE Sgn(x) * Sgn(y) * Inf)
  ELSE IF Abs(y) >= Inf THEN 0
  ELSE LET a == Abs(x)
           b == Abs(y)
       IN  Sgn(x) * Sgn(y) *
             (IF b >= Huge THEN a \div (b \div ONE)
              ELSE IF a \div b >= Huge THEN Inf
              ELSE (a \div b) * ONE + ((a % b) * ONE) \div b)

\* x > y and x <= y of two doubles: false when one of them is not a number
Gt(x, y) == x # NaN /\ y # NaN /\ x > y
Le(x, y) == x # NaN /\ y # NaN /\ x <= y

RECURSIVE ISqrt(_)
ISqrt(n) ==
  IF n < 2 THEN n
  ELSE LET s == 2 * ISqrt(n \div 4)
       IN  IF (s + 1) * (s + 1) <= n THEN s + 1 ELSE s

RECURSIVE FLog2(_)
FLog2(n) == IF n <= 1 THEN 0 ELSE 1 + FLog2(n \div 2)

\* sqrt(x), log(x), exp(x), fabs(x), pow(x, n) of <math.h>
Sqrt(x) ==
  IF x < 0 THEN NaN ELSE IF x >= Inf THEN Inf
  ELSE IF x >= Huge THEN ISqrt(x) * ISqrt(ONE) ELSE ISqrt(x * ONE)
Log(x) == (FLog2(x) - FracBits) * ONE
Exp(x) ==
  LET n == IF x >= 0 THEN x \div ONE ELSE -((-x + ONE - 1) \div ONE)
  IN  IF n >= 0 THEN ONE * (2 ^ n) ELSE ONE \div (2 ^ (-n))
Fabs(x) == IF x = NaN THEN NaN ELSE Abs(x)
RECURSIVE Pow(_, _)
Pow(x, n) == IF n = 0 THEN ONE ELSE Mul(Pow(x, n - 1), x)

\* the double with whole value n, and (int) x
R(n) == n * ONE
Trunc(x) == Sgn(x) * (Abs(x) \div ONE)

(***************************************************************************)
(* Return codes, enumerations, the packed index of a symmetric matrix      *)
(***************************************************************************)
SUCCESS == "_SUCCESS_"
FAILURE == "_FAILURE_"

\* index_symmetric_matrix(i1, i2, N): the pair (i1, i2) of an N x N symmetric
\* matrix stored as its upper triangle, row after row
\* the offset in a matrix that is stored whole, row by row
index_full_matrix(i1, i2, N) == IF i1 <= i2 THEN i2 + N * i1 ELSE i1 + N * i2

index_symmetric_matrix(i1, i2, N) ==
  IF i1 <= i2 THEN i2 + N * i1 - (i1 * (i1 + 1)) \div 2
  ELSE i1 + N * i2 - (i2 * (i2 + 1)) \div 2

\* the pairs index_ic1 <= index_ic2 visited by the two nested loops
Pairs(n) == {p \in (0 .. n - 1) \X (0 .. n - 1) : p[1] <= p[2]}
PairOf(idx, n) == CHOOSE p \in Pairs(n) : index_symmetric_matrix(p[1], p[2], n) = idx

(***************************************************************************)
(* primordial_get_lnk_list, primordial_indices                             *)
(***************************************************************************)
\* _K_PER_DECADE_PRIMORDIAL_MIN_ of primordial.h
K_PER_DECADE_PRIMORDIAL_MIN == ONE

\* the same list without the node that takes it beyond kmax
lnk_list_one_node_less(p, kmin, kmax, k_per_decade) ==
  IF (kmin <= 0) \/ (kmax <= kmin) THEN [ok |-> FALSE, ppm |-> p]
  ELSE LET size == Trunc(Mul(Div(Log(Div(kmax, kmin)), Log(R(10))), k_per_decade)) + 1
       IN  [ok  |-> TRUE,
            ppm |-> [p EXCEPT
                       !.lnk_size = size,
                       !.lnk = [i \in 0 .. size - 1 |->
                                  Log(kmin) + Div(Mul(R(i), Log(R(10))), k_per_decade)]]]

\* ppm->lnk_size and ppm->lnk[] for (kmin, kmax, k_per_decade); ok is FALSE when
\* the class_test on the arguments fails
primordial_get_lnk_list(p, kmin, kmax, k_per_decade) ==
  IF (kmin <= 0) \/ (kmax <= kmin) THEN [ok |-> FALSE, ppm |-> p]
  ELSE LET size == Trunc(Mul(Div(Log(Div(kmax, kmin)), Log(R(10))), k_per_decade)) + 2
       IN  [ok  |-> TRUE,
            ppm |-> [p EXCEPT
                       !.lnk_size = size,
                       !.lnk = [i \in 0 .. size - 1 |->
                                  Log(kmin) + Div(Mul(R(i), Log(R(10))), k_per_decade)]]]

\* sizes of the tables of each mode; the tables are allocated, not yet filled
primordial_indices(pt, p) ==
  LET ics == [m \in 0 .. pt.md_size - 1 |-> pt.ic_size[m]]
      icics == [m \in 0 .. pt.md_size - 1 |-> (ics[m] * (ics[m] + 1)) \div 2]
  IN  [p EXCEPT
         !.md_size = pt.md_size,
         !.ic_size = ics,
         !.ic_ic_size = icics,
         !.lnpk = [m \in 0 .. pt.md_size - 1 |->
                     [i \in 0 .. p.lnk_size * icics[m] - 1 |-> 0]],
         !.is_non_zero = [m \in 0 .. pt.md_size - 1 |->
                            [i \in 0 .. icics[m] - 1 |-> FALSE]]]

(***************************************************************************)
(* primordial_analytic_spectrum_init                                       *)
(*                                                                         *)
(* The routine keeps four locals (one_amplitude, one_tilt, one_running,    *)
(* one_correlation) across all iterations of its loops.  Its state is the  *)
(* record st: those locals, the tables being filled, and ok (FALSE once a  *)
(* class_test has failed).  has_nid and has_niv are false in every         *)
(* configuration drawn below, so the blocks they guard never execute.      *)
(***************************************************************************)
\* one iteration of the loop over the diagonal coefficients
AnalyticDiagStep(pt, p, st, index_mode, index_ic1) ==
  LET sc == pt.has_scalars /\ index_mode = pt.index_md_scalars
      te == pt.has_tensors /\ index_mode = pt.index_md_tensors
      is_ad == sc /\ pt.has_ad /\ index_ic1 = pt.index_ic_ad
      is_bi == sc /\ pt.has_bi /\ index_ic1 = pt.index_ic_bi
      is_cdi == sc /\ pt.has_cdi /\ index_ic1 = pt.index_ic_cdi
      is_ten == te /\ index_ic1 = pt.index_ic_ten
      a1 == IF is_ad THEN p.A_s ELSE st.one_amplitude
      t1 == IF is_ad THEN p.n_s ELSE st.one_tilt
      r1 == IF is_ad THEN p.alpha_s ELSE st.one_running
      a2 == IF is_bi THEN Mul(Mul(p.A_s, p.f_bi), p.f_bi) ELSE a1
      t2 == IF is_bi THEN p.n_bi ELSE t1
      r2 == IF is_bi THEN p.alpha_bi ELSE r1
      a3 == IF is_cdi THEN Mul(Mul(p.A_s, p.f_cdi), p.f_cdi) ELSE a2
      t3 == IF is_cdi THEN p.n_cdi ELSE t2
      r3 == IF is_cdi THEN p.alpha_cdi ELSE r2
      a4 == IF is_ten THEN Mul(p.A_s, p.r) ELSE a3
      t4 == IF is_ten THEN p.n_t + ONE ELSE t3
      r4 == IF is_ten THEN p.alpha_t ELSE r3
      idx == index_symmetric_matrix(index_ic1, index_ic1, p.ic_size[index_mode])
  IN  IF a4 <= 0
      THEN [st EXCEPT !.ok = FALSE, !.one_amplitude = a4, !.one_tilt = t4,
                      !.one_running = r4]
      ELSE [st EXCEPT !.one_amplitude = a4, !.one_tilt = t4, !.one_running = r4,
                      !.is_non_zero[index_mode][idx] = TRUE,
                      !.amplitude[index_mode][idx] = a4,
                      !.tilt[index_mode][idx] = t4,
                      !.running[index_mode][idx] = r4]

\* the test of one pair of kinds, as written for every pair but (ad, bi)
KindPair(has1, has2, index1, index2, index_ic1, index_ic2) ==
  has1 /\ has2 /\
  (((index_ic1 = index1) /\ (index_ic2 = index2)) \/
   ((index_ic2 = index1) /\ (index_ic1 = index2)))

\* the test of the pair (ad, bi): its second alternative tests index_ic1 twice
KindPairAdBi(has1, has2, index1, index2, index_ic1, index_ic2) ==
  has1 /\ has2 /\
  (((index_ic1 = index1) /\ (index_ic2 = index2)) \/
   ((index_ic1 = index1) /\ (index_ic1 = index2)))

\* one iteration of the loops over the non-diagonal coefficients
AnalyticCrossStep(pt, p, st, index_mode, index_ic1, index_ic2) ==
  LET sc == pt.has_scalars /\ index_mode = pt.index_md_scalars
      ad_bi == sc /\ KindPairAdBi(pt.has_ad, pt.has_bi, pt.index_ic_ad,
                                  pt.index_ic_bi, index_ic1, index_ic2)
      ad_cdi == sc /\ KindPair(pt.has_ad, pt.has_cdi, pt.index_ic_ad,
                               pt.index_ic_cdi, index_ic1, index_ic2)
      bi_cdi == sc /\ KindPair(pt.has_bi, pt.has_cdi, pt.index_ic_bi,
                               pt.index_ic_cdi, index_ic1, index_ic2)
      c1 == IF ad_bi THEN p.c_ad_bi ELSE st.one_correlation
      t1 == IF ad_bi THEN p.n_ad_bi ELSE st.one_tilt
      r1 == IF ad_bi THEN p.alpha_ad_bi ELSE st.one_running
      c2 == IF ad_cdi THEN p.c_ad_cdi ELSE c1
      t2 == IF ad_cdi THEN p.n_ad_cdi ELSE t1
      r2 == IF ad_cdi THEN p.alpha_ad_cdi ELSE r1
      c3 == IF bi_cdi THEN p.c_bi_cdi ELSE c2
      t3 == IF bi_cdi THEN p.n_bi_cdi ELSE t2
      r3 == IF bi_cdi THEN p.alpha_bi_cdi ELSE r2
      n == p.ic_size[index_mode]
      index_ic1_ic2 == index_symmetric_matrix(index_ic1, index_ic2, n)
      index_ic1_ic1 == index_symmetric_matrix(index_ic1, index_ic1, n)
      index_ic2_ic2 == index_symmetric_matrix(index_ic2, index_ic2, n)
      s1 == [st EXCEPT !.one_correlation = c3, !.one_tilt = t3, !.one_running = r3]
  IN  IF (c3 < -ONE) \/ (c3 > ONE) THEN [s1 EXCEPT !.ok = FALSE]
      ELSE IF c3 = 0
      THEN [s1 EXCEPT !.is_non_zero[index_mode][index_ic1_ic2] = FALSE,
                      !.amplitude[index_mode][index_ic1_ic2] = 0,
                      !.tilt[index_mode][index_ic1_ic2] = 0,
                      !.running[index_mode][index_ic1_ic2] = 0]
      ELSE [s1 EXCEPT !.is_non_zero[index_mode][index_ic1_ic2] = TRUE,
                      !.amplitude[index_mode][index_ic1_ic2] =
                         Mul(Sqrt(Mul(st.amplitude[index_mode][index_ic1_ic1],
                                      st.amplitude[index_mode][index_ic2_ic2])), c3),
                      !.tilt[index_mode][index_ic1_ic2] =
                         Mul(HALF, st.tilt[index_mode][index_ic1_ic1]
                                   + st.tilt[index_mode][index_ic2_ic2]) + t3,
                      !.running[index_mode][index_ic1_ic2] =
                         Mul(HALF, st.running[index_mode][index_ic1_ic1]
                                   + st.running[index_mode][index_ic2_ic2]) + r3]

\* the iterations of one mode in the order of the code: the diagonal loop, then
\* the double loop index_ic1 < index_ic2; an item is <<index_ic1, index_ic2>>
RECURSIVE CrossItems(_, _, _)
CrossItems(i, j, n) ==
  IF i >= n THEN << >>
  ELSE IF j >= n THEN CrossItems(i + 1, i + 2, n)
  ELSE << <<i, j>> >> \o CrossItems(i, j + 1, n)

AnalyticItems(n) == [i \in 1 .. n |-> <<i - 1, i - 1>>] \o CrossItems(0, 1, n)

RECURSIVE AnalyticRun(_, _, _, _, _, _)
AnalyticRun(pt, p, st, index_mode, items, k) ==
  IF ~st.ok THEN st
  ELSE IF k > Len(items)
  THEN IF index_mode + 1 < p.md_size
       THEN AnalyticRun(pt, p, st, index_mode + 1,
                        AnalyticItems(p.ic_size[index_mode + 1]), 1)
       ELSE st
  ELSE AnalyticRun(pt, p,
                   IF items[k][1] = items[k][2]
                   THEN AnalyticDiagStep(pt, p, st, index_mode, items[k][1])
                   ELSE AnalyticCrossStep(pt, p, st, index_mode, items[k][1], items[k][2]),
                   index_mode, items, k + 1)

primordial_analytic_spectrum_init(pt, p) ==
  LET zero == [m \in 0 .. p.md_size - 1 |-> [i \in 0 .. p.ic_ic_size[m] - 1 |-> 0]]
      st0 == [ok |-> TRUE, one_amplitude |-> 0, one_tilt |-> 0, one_running |-> 0,
              one_correlation |-> 0, amplitude |-> zero, tilt |-> zero,
              running |-> zero, is_non_zero |-> p.is_non_zero]
      st == AnalyticRun(pt, p, st0, 0, AnalyticItems(p.ic_size[0]), 1)
  IN  [ok  |-> st.ok,
       ppm |-> [p EXCEPT !.amplitude = st.amplitude, !.tilt = st.tilt,
                         !.running = st.running, !.is_non_zero = st.is_non_zero]]

\* primordial_analytic_spectrum: *pk for one pair of initial conditions at k
primordial_analytic_spectrum(p, index_mode, index_ic1_ic2, k) ==
  IF p.is_non_zero[index_mode][index_ic1_ic2]
  THEN Mul(p.amplitude[index_mode][index_ic1_ic2],
           Exp(Mul(p.tilt[index_mode][index_ic1_ic2] - ONE, Log(Div(k, p.k_pivot)))
               + Mul(Mul(HALF, p.running[index_mode][index_ic1_ic2]),
                     Pow(Log(Div(k, p.k_pivot)), 2))))
  ELSE 0

(***************************************************************************)
(* primordial_spectrum_at_k                                                *)
(***************************************************************************)
linear == "linear"
logarithmic == "logarithmic"
analytic_Pk == "analytic_Pk"
inflation_V == "inflation_V"

\* array_interpolate_spline on the table (lnk, lnpk[index_mode]): the row of the
\* table at a node; between two nodes the two rows weighted by the distances
\* (the cubic term of the spline vanishes at the nodes)
array_interpolate_spline(p, index_mode, lnk, idx) ==
  LET n == p.ic_ic_size[index_mode]
      inf == CHOOSE i \in 0 .. p.lnk_size - 1 :
               /\ p.lnk[i] <= lnk
               /\ (i = p.lnk_size - 1 \/ lnk < p.lnk[i + 1])
      sup == IF inf = p.lnk_size - 1 THEN inf ELSE inf + 1
      h == p.lnk[sup] - p.lnk[inf]
      b == IF h = 0 THEN 0 ELSE Div(lnk - p.lnk[inf], h)
      a == ONE - b
  IN  Mul(a, p.lnpk[index_mode][inf * n + idx])
      + Mul(b, p.lnpk[index_mode][sup * n + idx])

\* the test that sends a query to the direct computation or to the error
OutOfRangeStrict(p, lnk) == (lnk >= p.lnk[p.lnk_size - 1]) \/ (lnk <= p.lnk[0])
OutOfRange(p, lnk) == (lnk > p.lnk[p.lnk_size - 1]) \/ (lnk < p.lnk[0])

\* the test on the input of a query in linear mode
RejectedInputNegativeOnly(mode, input) == (mode = linear) /\ (input < 0)
RejectedInput(mode, input) == (mode = linear) /\ (input <= 0)

\* the direct computation: every pair from primordial_analytic_spectrum
DirectReadsTable(p, index_mode, lnk, output) ==
  [i \in DOMAIN output |->
     IF i < p.ic_ic_size[index_mode]
     THEN p.lnpk[index_mode][i]
     ELSE output[i]]
DirectSpectrum(p, index_mode, lnk, output) ==
  [i \in DOMAIN output |->
     IF i < p.ic_ic_size[index_mode]
     THEN IF p.is_non_zero[index_mode][i]
          THEN primordial_analytic_spectrum(p, index_mode, i, Exp(lnk))
          ELSE 0
     ELSE output[i]]

\* the transformation of the direct computation in logarithmic mode: first every
\* diagonal entry is replaced by its logarithm, then every correlated
\* non-diagonal entry is divided by sqrt(output[ic1,ic1] * output[ic2,ic2])
DirectToLogarithmic(p, index_mode, out) ==
  LET n == p.ic_size[index_mode]
      nn == p.ic_ic_size[index_mode]
      diag(i) == index_symmetric_matrix(i, i, n)
      out1 == [i \in DOMAIN out |->
                 IF i < nn /\ PairOf(i, n)[1] = PairOf(i, n)[2]
                 THEN Log(out[i]) ELSE out[i]]
  IN  [i \in DOMAIN out |->
         IF i < nn /\ PairOf(i, n)[1] # PairOf(i, n)[2] /\ p.is_non_zero[index_mode][i]
         THEN Div(out1[i], Sqrt(Mul(out1[diag(PairOf(i, n)[1])],
                                    out1[diag(PairOf(i, n)[2])])))
         ELSE out1[i]]

\* the transformation of the interpolated row in linear mode
TableToLinear(p, index_mode, out) ==
  LET n == p.ic_size[index_mode]
      nn == p.ic_ic_size[index_mode]
      diag(i) == index_symmetric_matrix(i, i, n)
      out1 == [i \in DOMAIN out |->
                 IF i < nn /\ PairOf(i, n)[1] = PairOf(i, n)[2]
                 THEN Exp(out[i]) ELSE out[i]]
  IN  [i \in DOMAIN out |->
         IF i < nn /\ PairOf(i, n)[1] # PairOf(i, n)[2]
         THEN IF p.is_non_zero[index_mode][i]
              THEN Mul(out1[i], Sqrt(Mul(out1[diag(PairOf(i, n)[1])],
                                         out1[diag(PairOf(i, n)[2])])))
              ELSE 0
         ELSE out1[i]]

\* the whole call: its return code and the output array it leaves
primordial_spectrum_at_k(p, index_mode, mode, input, output) ==
  IF RejectedInput(mode, input) THEN [ret |-> FAILURE, output |-> output]
  ELSE
    LET lnk == IF mode = linear THEN Log(input) ELSE input
    IN  IF OutOfRange(p, lnk)
        THEN IF p.primordial_spec_type # analytic_Pk
             THEN [ret |-> FAILURE, output |-> output]
             ELSE LET out == DirectSpectrum(p, index_mode, lnk, output)
                  IN  [ret    |-> SUCCESS,
                       output |-> IF mode = logarithmic
                                  THEN DirectToLogarithmic(p, index_mode, out)
                                  ELSE out]
        ELSE LET out == [i \in DOMAIN output |->
                           IF i < p.ic_ic_size[index_mode]
                           THEN array_interpolate_spline(p, index_mode, lnk, i)
                           ELSE output[i]]
             IN  [ret    |-> SUCCESS,
                  output |-> IF mode = linear
                             THEN TableToLinear(p, index_mode, out)
                             ELSE out]

(***************************************************************************)
(* primordial_init                                                         *)
(***************************************************************************)
\* the arrays y, y_ini, dy: one field for each index of primordial_inflation_indices
Slots == {"a", "phi", "dphi", "ksi_re", "ksi_im", "dksi_re", "dksi_im",
          "ah_re", "ah_im", "dah_re", "dah_im"}
BgSlots == {"a", "phi", "dphi"}
YZero == [a |-> 0, phi |-> 0, dphi |-> 0, ksi_re |-> 0, ksi_im |-> 0,
          dksi_re |-> 0, dksi_im |-> 0, ah_re |-> 0, ah_im |-> 0,
          dah_re |-> 0, dah_im |-> 0]

\* primordial_inflation_indices: the sizes of the background part and of the
\* whole of the state vector (the indices are the fields of Slots)
primordial_inflation_indices(p) ==
  [p EXCEPT !.in_bg_size = Cardinality(BgSlots), !.in_size = Cardinality(Slots)]

\* the loop filling ppm->lnpk in the analytic case: ln P(k) on the diagonal, the
\* cross-correlation angle P_12/sqrt(P_11 P_22) for a correlated pair, 0 otherwise
AnalyticTable(p) ==
  [m \in 0 .. p.md_size - 1 |->
     [i \in 0 .. p.lnk_size * p.ic_ic_size[m] - 1 |->
        LET nn == p.ic_ic_size[m]
            n == p.ic_size[m]
            index_k == i \div nn
            index_ic1_ic2 == i % nn
            index_ic1 == PairOf(index_ic1_ic2, n)[1]
            index_ic2 == PairOf(index_ic1_ic2, n)[2]
            k == Exp(p.lnk[index_k])
            pk == primordial_analytic_spectrum(p, m, index_ic1_ic2, k)
            pk1 == primordial_analytic_spectrum(
                     p, m, index_symmetric_matrix(index_ic1, index_ic1, n), k)
            pk2 == primordial_analytic_spectrum(
                     p, m, index_symmetric_matrix(index_ic2, index_ic2, n), k)
        IN  IF p.is_non_zero[m][index_ic1_ic2]
            THEN IF index_ic1 = index_ic2 THEN Log(pk)
                 ELSE Div(pk, Sqrt(Mul(pk1, pk2)))
            ELSE 0]]

\* the same tests when the last one looks at has_bi and has_cdi only
InflationRequestRejectedTwoKinds(pt) ==
  \/ ~pt.has_scalars
  \/ pt.has_vectors
  \/ ~pt.has_tensors
  \/ pt.has_bi \/ pt.has_cdi

\* the tests of the inflation_V branch made before any inflation solving
InflationRequestRejected(pt) ==
  \/ ~pt.has_scalars
  \/ pt.has_vectors
  \/ ~pt.has_tensors
  \/ pt.has_bi \/ pt.has_cdi \/ pt.has_nid \/ pt.has_niv

\* what primordial_inflation_spectra leaves in the tables for the values
\* (curvature, tensors) of each k: the result of a successful
\* primordial_inflation_solve_inflation, which Spec models step by step
InflationTable(pt, p, curvature, tensors) ==
  [p EXCEPT
     !.lnpk = [m \in 0 .. p.md_size - 1 |->
                 [i \in 0 .. p.lnk_size * p.ic_ic_size[m] - 1 |->
                    IF m = pt.index_md_scalars THEN Log(curvature[i])
                    ELSE IF m = pt.index_md_tensors THEN Log(tensors[i])
                    ELSE p.lnpk[m][i]]],
     !.is_non_zero = [m \in 0 .. p.md_size - 1 |->
                        [i \in 0 .. p.ic_ic_size[m] - 1 |->
                           IF i = 0 /\ m \in {pt.index_md_scalars, pt.index_md_tensors}
                           THEN TRUE ELSE p.is_non_zero[m][i]]]]

\* the second derivatives of every table, computed by array_spline_table_lines
Splined(p) == [p EXCEPT !.ddlnpk = TRUE]

\* primordial_spectrum_at_k in logarithmic mode into one double, at ln k_pivot,
\* at ln k_pivot + dlnk and at ln k_pivot - dlnk
PivotQuery(p, index_mode, lnk) ==
  primordial_spectrum_at_k(p, index_mode, logarithmic, lnk, [i \in 0 .. 0 |-> 0])
PivotQueriesAtPivotOnly(p, index_mode, dlnk) ==
  <<PivotQuery(p, index_mode, Log(p.k_pivot)),
    PivotQuery(p, index_mode, Log(p.k_pivot)),
    PivotQuery(p, index_mode, Log(p.k_pivot))>>
PivotQueries(p, index_mode, dlnk) ==
  <<PivotQuery(p, index_mode, Log(p.k_pivot)),
    PivotQuery(p, index_mode, Log(p.k_pivot) + dlnk),
    PivotQuery(p, index_mode, Log(p.k_pivot) - dlnk)>>

\* the amplitude, the tilt and the running from the three values
Tilt(lnpk_plus, lnpk_minus, dlnk) == Div(lnpk_plus - lnpk_minus, Mul(R(2), dlnk))
Running(lnpk_pivot, lnpk_plus, lnpk_minus, dlnk) ==
  Div(lnpk_plus - Mul(R(2), lnpk_pivot) + lnpk_minus, Pow(dlnk, 2))

ScalarParameters(p, dlnk, q) ==
  IF FAILURE \in {q[1].ret, q[2].ret, q[3].ret} THEN [ret |-> FAILURE, ppm |-> p]
  ELSE [ret |-> SUCCESS,
        ppm |-> [p EXCEPT
                   !.A_s = Exp(q[1].output[0]),
                   !.n_s = Tilt(q[2].output[0], q[3].output[0], dlnk) + ONE,
                   !.alpha_s = Running(q[1].output[0], q[2].output[0],
                                       q[3].output[0], dlnk)]]

TensorParameters(p, dlnk, q) ==
  IF FAILURE \in {q[1].ret, q[2].ret, q[3].ret} THEN [ret |-> FAILURE, ppm |-> p]
  ELSE [ret |-> SUCCESS,
        ppm |-> [p EXCEPT
                   !.r = Div(Exp(q[1].output[0]), p.A_s),
                   !.n_t = Tilt(q[2].output[0], q[3].output[0], dlnk),
                   !.alpha_t = Running(q[1].output[0], q[2].output[0],
                                       q[3].output[0], dlnk)]]

\* the tensor part, entered with the result s of the scalar part
SpectralTensors(pt, s, dlnk) ==
  IF s.ret = FAILURE \/ ~pt.has_tensors THEN s
  ELSE TensorParameters(s.ppm, dlnk, PivotQueries(s.ppm, pt.index_md_tensors, dlnk))

SpectralScalars(pt, p, dlnk) ==
  IF ~pt.has_scalars THEN [ret |-> SUCCESS, ppm |-> p]
  ELSE ScalarParameters(p, dlnk, PivotQueries(p, pt.index_md_scalars, dlnk))

\* the last part of primordial_init: A_s, n_s, alpha_s, r, n_t, alpha_t from three
\* queries of each table at ln k_pivot and ln k_pivot +/- dlnk
SpectralParameters(pr, pt, p) ==
  SpectralTensors(pt, SpectralScalars(pt, p, Div(Log(R(10)), pr.k_per_decade_primordial)),
                  Div(Log(R(10)), pr.k_per_decade_primordial))

\* k_min and k_max over the modes of the perturbation structure
KMinOf(pt) == CHOOSE k \in {pt.k_first[m] : m \in 0 .. pt.md_size - 1} :
                \A m \in 0 .. pt.md_size - 1 : k <= pt.k_first[m]
KMaxOf(pt) == CHOOSE k \in {pt.k_last[m] : m \in 0 .. pt.md_size - 1} :
                \A m \in 0 .. pt.md_size - 1 : k >= pt.k_last[m]

\* the tests on the arguments at the top of primordial_init
InitArgumentsRejected(pr, pt, p) ==
  \/ KMinOf(pt) <= 0
  \/ KMaxOf(pt) <= 0
  \/ p.k_pivot <= 0
  \/ pr.k_per_decade_primordial <= 0
  \/ pr.k_per_decade_primordial <= K_PER_DECADE_PRIMORDIAL_MIN

\* the sizes of the tables, once the grid g is made
GridIndices(pt, g) ==
  IF ~g.ok THEN g ELSE [ok |-> TRUE, ppm |-> primordial_indices(pt, g.ppm)]

\* primordial_init up to the point where the tables are to be filled: the grid
\* and the sizes; ok is FALSE when a test or a call has failed
InitGrid(pr, pt, p) ==
  IF InitArgumentsRejected(pr, pt, p) THEN [ok |-> FALSE, ppm |-> p]
  ELSE GridIndices(pt, primordial_get_lnk_list(p, KMinOf(pt), KMaxOf(pt),
                                               pr.k_per_decade_primordial))

\* the analytic case, a being the result of primordial_analytic_spectrum_init
InitAnalytic(a) ==
  IF ~a.ok THEN [ret |-> FAILURE, ppm |-> a.ppm]
  ELSE [ret |-> SUCCESS, ppm |-> Splined([a.ppm EXCEPT !.lnpk = AnalyticTable(a.ppm)])]

\* the inflation_V case on the grid p
InitInflation(pr, pt, p, infl) ==
  IF InflationRequestRejected(pt) \/ ~infl.ok THEN [ret |-> FAILURE, ppm |-> p]
  ELSE SpectralParameters(pr, pt,
         Splined(InflationTable(pt, primordial_inflation_indices(p),
                                infl.curvature, infl.tensors)))

InitTables(pr, pt, g, infl) ==
  IF ~g.ok THEN [ret |-> FAILURE, ppm |-> g.ppm]
  ELSE IF g.ppm.primordial_spec_type = analytic_Pk
  THEN InitAnalytic(primordial_analytic_spectrum_init(pt, g.ppm))
  ELSE IF g.ppm.primordial_spec_type = inflation_V
  THEN InitInflation(pr, pt, g.ppm, infl)
  ELSE [ret |-> FAILURE, ppm |-> g.ppm]

\* primordial_init; infl is the outcome of primordial_inflation_solve_inflation,
\* used in the inflation_V case only: ok, and the values of each k
primordial_init(pr, pt, p, infl) ==
  IF ~pt.has_perturbations THEN [ret |-> SUCCESS, ppm |-> [p EXCEPT !.lnk_size = 0]]
  ELSE InitTables(pr, pt, InitGrid(pr, pt, p), infl)

(***************************************************************************)
(* State                                                                   *)
(***************************************************************************)
VARIABLES
  ppr,      \* struct precision: the numerical parameters
  ppt,      \* struct perturbs: what the perturbation module requests
  ppm,      \* struct primordial: the inputs, the grid and the tables
  pc,       \* where the program is
  ret,      \* the return code of the last call that returned
  call,     \* the arguments of the last call of primordial_spectrum_at_k
  output,   \* the caller's output array of primordial_spectrum_at_k
  stack,    \* the places to return to, innermost caller first
  y,        \* the state vector of the inflation solver
  dy,       \* its derivative, as last written by primordial_inflation_derivs
  y_ini,    \* the initial state found by the shooting search
  si,       \* the locals of primordial_inflation_solve_inflation
  sp,       \* the locals of primordial_inflation_spectra
  ok,       \* the locals of primordial_inflation_one_k
  fa,       \* the arguments and locals of primordial_inflation_find_attractor
  eb,       \* the arguments and locals of primordial_inflation_evolve_background
  ra,       \* the arguments and locals of primordial_inflation_reach_aH
  gi,       \* the routines that hold an initialized integrator workspace
  heap,     \* the arrays allocated by solve_inflation and not freed
  error_message, \* ppm->error_message: the test or call that failed first
  visited,  \* history: a field value with V <= 0 or dV >= 0 was taken by y
  known,    \* history: what generic_integrator returned for each input
  access,   \* the entry of lnpk last addressed by the loops of primordial_init
  twice     \* the two invocations compared by SpecAttractor

inflVars == <<stack, y, dy, y_ini, si, sp, ok, fa, eb, ra, gi, heap,
              error_message, visited, known, access, twice>>
vars == <<ppr, ppt, ppm, pc, ret, call, output, stack, y, dy, y_ini, si, sp, ok,
          fa, eb, ra, gi, heap, error_message, visited, known, access, twice>>

\* the locals of each routine while the routine is not running; of the locals
\* of a running routine, those that are read after the step that wrote them
SiZero == [a_pivot |-> 0, H_pivot |-> 0, dphidt_pivot |-> 0, a_try |-> 0, H_try |-> 0,
           phi_try |-> 0, dphidt_try |-> 0, aH_ini |-> 0, counter |-> 0]
SpZero == [index_k |-> 0, k |-> 0, curvature |-> 0, tensors |-> 0]
OkZero == [k |-> 0, dtau |-> 0, curvature_new |-> 0]
FaZero == [phi_0 |-> 0, precision |-> 0, out |-> "none", V_0 |-> 0, dV_0 |-> 0,
           phi |-> 0, counter |-> 0, dphidt_0new |-> 0, dphidt_0old |-> 0]
EbZero == [phi_stop |-> 0, dtau |-> 0, epsilon |-> 0]
RaZero == [aH_stop |-> 0]
NoAccess == [index_mode |-> -1, index_k |-> 0, index_ic1 |-> 0, index_ic2 |-> 0,
             offset |-> 0]
TwiceOff == [phi_0 |-> 0, precision |-> 0, H_0 |-> 0, dphidt_0 |-> 0,
             done |-> 0, first |-> << >>, second |-> << >>]

\* the inflation solver before it has been entered
InflationIdle ==
  /\ stack = << >>
  /\ y = YZero /\ dy = YZero /\ y_ini = YZero
  /\ si = SiZero /\ sp = SpZero /\ ok = OkZero
  /\ fa = FaZero /\ eb = EbZero /\ ra = RaZero
  /\ gi = {} /\ heap = {}
  /\ error_message = ""
  /\ visited = FALSE
  /\ known = [on |-> FALSE, map |-> {}]
  /\ access = NoAccess
  /\ twice = TwiceOff

(***************************************************************************)
(* The configurations drawn                                                *)
(***************************************************************************)
\* queries are made at ln k = -MaxLnk .. MaxLnk
MaxLnk == 3
\* the largest number of pairs of initial conditions: three kinds, six pairs
MaxPairs == (3 * (3 + 1)) \div 2

\* the perturbation structure as perturb_init leaves it: the kinds present are
\* numbered in the order ad, bi, cdi, nid, niv
Perturbs(has_tensors, has_bi, has_cdi, kmin, kmax) ==
  [has_perturbations |-> TRUE,
   has_scalars |-> TRUE, has_vectors |-> FALSE, has_tensors |-> has_tensors,
   has_ad |-> TRUE, has_bi |-> has_bi, has_cdi |-> has_cdi,
   has_nid |-> FALSE, has_niv |-> FALSE,
   md_size |-> IF has_tensors THEN 2 ELSE 1,
   index_md_scalars |-> 0,
   index_md_tensors |-> IF has_tensors THEN 1 ELSE -1,
   ic_size |-> [m \in 0 .. 1 |->
                  IF m = 0 THEN 1 + (IF has_bi THEN 1 ELSE 0) + (IF has_cdi THEN 1 ELSE 0)
                  ELSE 1],
   index_ic_ad |-> 0,
   index_ic_bi |-> IF has_bi THEN 1 ELSE -1,
   index_ic_cdi |-> IF has_cdi THEN (IF has_bi THEN 2 ELSE 1) ELSE -1,
   index_ic_ten |-> 0,
   k_first |-> [m \in 0 .. 1 |-> kmin],
   k_last |-> [m \in 0 .. 1 |-> kmax]]

\* a spectrum type that is neither analytic_Pk nor inflation_V
another_type == "another_type"

\* the perturbation structure for any request: the modes present are numbered
\* in the order scalars, vectors, tensors; iso is the isocurvature kind asked
\* for with the adiabatic one, if any
Requested(has_perturbations, has_scalars, has_vectors, has_tensors, iso) ==
  [Perturbs(has_tensors, iso = "bi", iso = "cdi", R(2), R(8)) EXCEPT
     !.has_perturbations = has_perturbations,
     !.has_scalars = has_scalars,
     !.has_vectors = has_vectors,
     !.has_nid = (iso = "nid"),
     !.has_niv = (iso = "niv"),
     !.md_size = (IF has_scalars THEN 1 ELSE 0) + (IF has_vectors THEN 1 ELSE 0)
                   + (IF has_tensors THEN 1 ELSE 0),
     !.index_md_scalars = IF has_scalars THEN 0 ELSE -1,
     !.index_md_tensors = IF has_tensors
                          THEN (IF has_scalars THEN 1 ELSE 0)
                                 + (IF has_vectors THEN 1 ELSE 0)
                          ELSE -1,
     !.ic_size = [m \in 0 .. 2 |->
                    IF has_scalars /\ m = 0 /\ iso # "none" THEN 2 ELSE 1],
     !.k_first = [m \in 0 .. 2 |-> R(2)],
     !.k_last = [m \in 0 .. 2 |-> R(8)]]

\* the primordial structure before primordial_init: the inputs only
Primordial(type, n_s, c_ad_bi) ==
  [primordial_spec_type |-> type,
   k_pivot |-> R(1),
   A_s |-> R(16), n_s |-> n_s, alpha_s |-> ONE \div 4,
   f_bi |-> R(2), n_bi |-> R(1), alpha_bi |-> 0,
   f_cdi |-> R(1), n_cdi |-> R(1), alpha_cdi |-> 0,
   c_ad_bi |-> c_ad_bi, n_ad_bi |-> 0, alpha_ad_bi |-> 0,
   c_ad_cdi |-> ONE, n_ad_cdi |-> 0, alpha_ad_cdi |-> 0,
   c_bi_cdi |-> 0, n_bi_cdi |-> 0, alpha_bi_cdi |-> 0,
   r |-> R(1), n_t |-> 0, alpha_t |-> 0,
   lnk_size |-> 0, lnk |-> << >>,
   md_size |-> 0, ic_size |-> << >>, ic_ic_size |-> << >>,
   is_non_zero |-> << >>, amplitude |-> << >>, tilt |-> << >>, running |-> << >>,
   lnpk |-> << >>, ddlnpk |-> FALSE,
   phi_pivot |-> 0, V0 |-> R(3), V1 |-> -R(4), V2 |-> R(6), V3 |-> 0, V4 |-> 0,
   in_bg_size |-> 0, in_size |-> 0]

Precision ==
  [k_per_decade_primordial |-> R(3),
   primordial_inflation_ratio_min |-> ONE + HALF,
   primordial_inflation_ratio_max |-> HALF,
   primordial_inflation_phi_ini_maxit |-> 3,
   primordial_inflation_pt_stepsize |-> ONE \div 16,
   primordial_inflation_bg_stepsize |-> ONE \div 4,
   primordial_inflation_tol_integration |-> 1,
   primordial_inflation_attractor_precision_pivot |-> HALF,
   primordial_inflation_attractor_precision_initial |-> HALF,
   primordial_inflation_attractor_maxit |-> 3,
   primordial_inflation_jump_initial |-> R(2),
   primordial_inflation_tol_curvature |-> ONE \div 4,
   smallest_allowed_variation |-> 1]

NoCall == [index_mode |-> 0, mode |-> "none", input |-> 0]

InitTable ==
  /\ ppr = Precision
  /\ \E has_tensors \in BOOLEAN, has_bi \in BOOLEAN, has_cdi \in BOOLEAN :
       /\ has_cdi => has_bi
       /\ ppt = Perturbs(has_tensors, has_bi, has_cdi, ONE \div 4, R(2))
  /\ \E type \in {analytic_Pk, inflation_V}, n_s \in {R(1), R(2)},
        c_ad_bi \in {-ONE, 0, HALF} :
       ppm = Primordial(type, n_s, c_ad_bi)
  /\ pc = "start"
  /\ ret = SUCCESS
  /\ call = NoCall
  /\ output = [i \in 0 .. MaxPairs - 1 |-> 0]
  /\ InflationIdle

\* the outcomes of primordial_inflation_solve_inflation drawn for the table
InflationOutcomes ==
  [ok : BOOLEAN,
   curvature : {[i \in 0 .. 2 * MaxLnk |-> R(4)], [i \in 0 .. 2 * MaxLnk |-> R(4) * (2 ^ i)]},
   tensors : {[i \in 0 .. 2 * MaxLnk |-> R(2)]}]

\* the inputs of a query: ln k on the lattice, or k = exp(ln k), 0 and -1
Inputs(mode) ==
  IF mode = logarithmic THEN {R(l) : l \in -MaxLnk .. MaxLnk}
  ELSE {Exp(R(l)) : l \in -MaxLnk .. MaxLnk} \cup {0, -ONE}

(***************************************************************************)
(* SpecTable: primordial_init, then queries                                *)
(***************************************************************************)
TableInitDone(res) ==
  /\ ppm' = res.ppm
  /\ ret' = res.ret
  /\ pc' = IF res.ret = SUCCESS THEN "ready" ELSE "failed"

TableInit ==
  /\ pc = "start"
  /\ \E infl \in InflationOutcomes : TableInitDone(primordial_init(ppr, ppt, ppm, infl))
  /\ UNCHANGED <<ppr, ppt, call, output>>
  /\ UNCHANGED inflVars

SpectrumAtKDone(res) == ret' = res.ret /\ output' = res.output

SpectrumAtK ==
  /\ pc = "ready"
  /\ \E index_mode \in 0 .. ppm.md_size - 1, mode \in {linear, logarithmic} :
       \E input \in Inputs(mode) :
         /\ call' = [index_mode |-> index_mode, mode |-> mode, input |-> input]
         /\ SpectrumAtKDone(primordial_spectrum_at_k(ppm, index_mode, mode, input, output))
  /\ UNCHANGED <<ppr, ppt, ppm, pc>>
  /\ UNCHANGED inflVars

NextTable == TableInit \/ SpectrumAtK

SpecTable == InitTable /\ [][NextTable]_vars

(***************************************************************************)
(* SpecGrid: primordial_get_lnk_list on its own, or primordial_init with   *)
(* an analytic spectrum and then queries, for a range of grids             *)
(***************************************************************************)
InitLnk ==
  /\ \E k_per_decade \in {HALF, ONE, ONE + HALF, R(2), R(3), R(6)} :
       ppr = [Precision EXCEPT !.k_per_decade_primordial = k_per_decade]
  /\ \E kmin \in {0, ONE \div 4, HALF, ONE}, kmax \in {HALF, R(2), R(8)} :
       ppt = Perturbs(FALSE, FALSE, FALSE, kmin, kmax)
  /\ ppm = Primordial(analytic_Pk, R(1), 0)
  /\ pc = "start"
  /\ ret = SUCCESS
  /\ call = NoCall
  /\ output = [i \in 0 .. MaxPairs - 1 |-> 0]
  /\ InflationIdle

\* a call of primordial_get_lnk_list alone
GetLnkList ==
  /\ pc = "start"
  /\ LET g == primordial_get_lnk_list(ppm, KMinOf(ppt), KMaxOf(ppt),
                                      ppr.k_per_decade_primordial)
     IN  ppm' = g.ppm /\ ret' = (IF g.ok THEN SUCCESS ELSE FAILURE)
  /\ pc' = "grid"
  /\ UNCHANGED <<ppr, ppt, call, output>>
  /\ UNCHANGED inflVars

NextGrid == GetLnkList \/ TableInit \/ SpectrumAtK

SpecGrid == InitLnk /\ [][NextGrid]_vars

\* the grid has been built
GridBuilt == (pc = "grid" /\ ret = SUCCESS) \/ pc = "ready"

\* at least two nodes, the first at ln(kmin), each node above the one before
\* by ln(10)/k_per_decade, the last at or above ln(kmax)
GridShape ==
  /\ ppm.lnk_size >= 2
  /\ DOMAIN ppm.lnk = 0 .. ppm.lnk_size - 1
  /\ ppm.lnk[0] = Log(KMinOf(ppt))
  /\ \A i \in 0 .. ppm.lnk_size - 2 :
       /\ ppm.lnk[i + 1] > ppm.lnk[i]
       /\ ppm.lnk[i + 1] - ppm.lnk[i] = Div(Log(R(10)), ppr.k_per_decade_primordial)
  /\ ppm.lnk[ppm.lnk_size - 1] >= Log(KMaxOf(ppt))

InitPairs ==
  /\ ppr = Precision
  /\ \E has_tensors \in BOOLEAN, has_bi \in BOOLEAN, has_cdi \in BOOLEAN,
        has_nid \in BOOLEAN, has_niv \in BOOLEAN, kmax \in {R(2), R(8)} :
       ppt = [Perturbs(has_tensors, has_bi, has_cdi, ONE \div 4, kmax) EXCEPT
                !.has_nid = has_nid,
                !.has_niv = has_niv,
                !.ic_size = [m \in 0 .. 1 |->
                               IF m = 0
                               THEN 1 + (IF has_bi THEN 1 ELSE 0) + (IF has_cdi THEN 1 ELSE 0)
                                      + (IF has_nid THEN 1 ELSE 0) + (IF has_niv THEN 1 ELSE 0)
                               ELSE 1]]
  /\ ppm = Primordial(analytic_Pk, R(1), 0)
  /\ pc = "start"
  /\ ret = SUCCESS
  /\ call = NoCall
  /\ output = [i \in 0 .. MaxPairs - 1 |-> 0]
  /\ InflationIdle

\* primordial_init up to the tables: the grid, the sizes, the allocation
PairsIndices ==
  /\ pc = "start"
  /\ ppm' = InitGrid(ppr, ppt, ppm).ppm
  /\ pc' = "fill"
  /\ UNCHANGED <<ppr, ppt, ret, call, output>>
  /\ UNCHANGED inflVars

\* one turn of the loops over index_k, index_mode, index_ic1 <= index_ic2: the
\* entry of lnpk[index_mode] that the turn addresses
PairAccess ==
  /\ pc = "fill"
  /\ \E index_k \in 0 .. ppm.lnk_size - 1, index_mode \in 0 .. ppt.md_size - 1 :
       \E index_ic1 \in 0 .. ppm.ic_size[index_mode] - 1 :
         \E index_ic2 \in index_ic1 .. ppm.ic_size[index_mode] - 1 :
           access' = [index_mode |-> index_mode, index_k |-> index_k,
                      index_ic1 |-> index_ic1, index_ic2 |-> index_ic2,
                      offset |-> index_k * ppm.ic_ic_size[index_mode]
                                   + index_symmetric_matrix(index_ic1, index_ic2,
                                                            ppm.ic_size[index_mode])]
  /\ UNCHANGED <<ppr, ppt, ppm, pc, ret, call, output, stack, y, dy, y_ini, si, sp, ok,
                 fa, eb, ra, gi, heap, error_message, visited, known, twice>>

NextPairs == PairsIndices \/ PairAccess

SpecPairs == InitPairs /\ [][NextPairs]_vars

\* i*n - i(i-1)/2 + (j-i)
PairIndex(i, j, n) == i * n - (i * (i - 1)) \div 2 + (j - i)

\* C21: the entry addressed for the pair index_ic1 <= index_ic2 of n kinds at
\* index_k is index_k*ic_ic_size + pair_index, with ic_ic_size = n(n+1)/2 and
\* pair_index = i*n - i(i-1)/2 + (j-i); it is within the lnk_size*ic_ic_size
\* entries allocated, no other pair of the same mode has the same
\* pair_index, and every value of 0 .. ic_ic_size - 1 is the pair_index of
\* a pair
C21_PairsAddressEntries ==
  access # NoAccess =>
    LET m == access.index_mode
        n == ppm.ic_size[m]
        nn == ppm.ic_ic_size[m]
        idx == access.offset - access.index_k * nn
    IN  /\ nn = (n * (n + 1)) \div 2
        /\ idx = PairIndex(access.index_ic1, access.index_ic2, n)
        /\ idx \in 0 .. nn - 1
        /\ access.offset \in DOMAIN ppm.lnpk[m]
        /\ access.offset < ppm.lnk_size * nn
        /\ \A j1 \in 0 .. n - 1 : \A j2 \in j1 .. n - 1 :
             <<j1, j2>> # <<access.index_ic1, access.index_ic2>> =>
               PairIndex(j1, j2, n) # idx
        /\ \A slot \in 0 .. nn - 1 :
             \E j1 \in 0 .. n - 1 : \E j2 \in j1 .. n - 1 : PairIndex(j1, j2, n) = slot

\* the last pair of five kinds is addressed at the last wavenumber: the last
\* entry of the table
C21_Witness ==
  /\ access.index_mode = 0
  /\ ppm.ic_size[0] = 5
  /\ access.index_ic1 = 4 /\ access.index_ic2 = 4
  /\ access.index_k = ppm.lnk_size - 1
  /\ access.offset = ppm.lnk_size * 15 - 1

(***************************************************************************)
(* SpecKinds: primordial_init with an analytic spectrum, for every         *)
(* numbering of the kinds of scalar initial conditions that are present    *)
(***************************************************************************)
Kinds == {"ad", "bi", "cdi"}

InitKinds ==
  /\ ppr = Precision
  /\ \E has_bi \in BOOLEAN, has_cdi \in BOOLEAN :
       \E index_ic \in [Kinds -> -1 .. 2] :
         LET present == {"ad"} \cup (IF has_bi THEN {"bi"} ELSE {})
                               \cup (IF has_cdi THEN {"cdi"} ELSE {})
         IN  /\ \A kind \in Kinds \ present : index_ic[kind] = -1
             /\ \A kind \in present : index_ic[kind] \in 0 .. Cardinality(present) - 1
             /\ \A k1 \in present : \A k2 \in present \ {k1} : index_ic[k1] # index_ic[k2]
             /\ ppt = [Perturbs(FALSE, has_bi, has_cdi, ONE \div 4, R(2)) EXCEPT
                         !.index_ic_ad = index_ic["ad"],
                         !.index_ic_bi = index_ic["bi"],
                         !.index_ic_cdi = index_ic["cdi"]]
  /\ \E c_ad_bi \in {0, HALF}, c_ad_cdi \in {0, ONE}, c_bi_cdi \in {0, -HALF} :
       ppm = [Primordial(analytic_Pk, R(1), c_ad_bi) EXCEPT
                !.c_ad_cdi = c_ad_cdi, !.c_bi_cdi = c_bi_cdi,
                !.n_ad_bi = R(1), !.n_ad_cdi = R(2), !.n_bi_cdi = R(3),
                !.alpha_ad_bi = R(4), !.alpha_ad_cdi = R(5), !.alpha_bi_cdi = R(6)]
  /\ pc = "start"
  /\ ret = SUCCESS
  /\ call = NoCall
  /\ output = [i \in 0 .. MaxPairs - 1 |-> 0]
  /\ InflationIdle

NextKinds == TableInit

SpecKinds == InitKinds /\ [][NextKinds]_vars

\* the kinds present, the index of each, and what is configured for a pair
PresentKinds ==
  {"ad"} \cup (IF ppt.has_bi THEN {"bi"} ELSE {}) \cup (IF ppt.has_cdi THEN {"cdi"} ELSE {})
IndexOfKind(kind) ==
  IF kind = "ad" THEN ppt.index_ic_ad
  ELSE IF kind = "bi" THEN ppt.index_ic_bi ELSE ppt.index_ic_cdi
ConfiguredFor(k1, k2) ==
  IF {k1, k2} = {"ad", "bi"}
  THEN [correlation |-> ppm.c_ad_bi, tilt |-> ppm.n_ad_bi, running |-> ppm.alpha_ad_bi]
  ELSE IF {k1, k2} = {"ad", "cdi"}
  THEN [correlation |-> ppm.c_ad_cdi, tilt |-> ppm.n_ad_cdi, running |-> ppm.alpha_ad_cdi]
  ELSE [correlation |-> ppm.c_bi_cdi, tilt |-> ppm.n_bi_cdi, running |-> ppm.alpha_bi_cdi]

\* the cross term of the kinds k1 and k2 is the one their configuration gives
CrossTermOf(k1, k2) ==
  LET m == ppt.index_md_scalars
      n == ppm.ic_size[m]
      i1 == IndexOfKind(k1)
      i2 == IndexOfKind(k2)
      i12 == IF i1 <= i2 THEN i2 + n * i1 - (i1 * (i1 + 1)) \div 2
             ELSE i1 + n * i2 - (i2 * (i2 + 1)) \div 2
      i11 == n * i1 - (i1 * (i1 + 1)) \div 2 + i1
      i22 == n * i2 - (i2 * (i2 + 1)) \div 2 + i2
      c == ConfiguredFor(k1, k2)
  IN  IF c.correlation = 0
      THEN /\ ~ppm.is_non_zero[m][i12]
           /\ ppm.amplitude[m][i12] = 0
           /\ ppm.tilt[m][i12] = 0
           /\ ppm.running[m][i12] = 0
      ELSE /\ ppm.is_non_zero[m][i12]
           /\ ppm.amplitude[m][i12] =
                Mul(Sqrt(Mul(ppm.amplitude[m][i11], ppm.amplitude[m][i22])), c.correlation)
           /\ ppm.tilt[m][i12] = Mul(HALF, ppm.tilt[m][i11] + ppm.tilt[m][i22]) + c.tilt
           /\ ppm.running[m][i12] =
                Mul(HALF, ppm.running[m][i11] + ppm.running[m][i22]) + c.running

\* C22: after primordial_analytic_spectrum_init, the cross term of every pair
\* of distinct kinds that are present is built from the correlation, the tilt
\* and the running configured for that pair, whichever of the two kinds has
\* the smaller index; it is flagged zero, with amplitude, tilt and running 0,
\* exactly when that correlation is 0
C22_CrossTermsOfTheirPair ==
  pc = "ready" =>
    \A k1 \in PresentKinds : \A k2 \in PresentKinds \ {k1} : CrossTermOf(k1, k2)

(***************************************************************************)
(* Claims about primordial_spectrum_at_k, checked under SpecTable          *)
(***************************************************************************)
\* a query has been made (call holds its arguments, ret and output its results)
Queried == pc = "ready" /\ call.mode # "none"
\* the ln k of the last query
QueryLnk == IF call.mode = linear THEN Log(call.input) ELSE call.input
FirstNode == ppm.lnk[0]
LastNode == ppm.lnk[ppm.lnk_size - 1]

\* C1: with a spectrum that is not analytic, a query at the first or at the last
\* node of the grid succeeds and a query strictly below the first or strictly
\* above the last node returns the error; with an analytic spectrum no query
\* (of valid input) is rejected.
C1_BoundaryNodes ==
  (Queried /\ ~((call.mode = linear) /\ (call.input <= 0))) =>
    /\ (ppm.primordial_spec_type # analytic_Pk /\ QueryLnk \in {FirstNode, LastNode})
         => ret = SUCCESS
    /\ (ppm.primordial_spec_type # analytic_Pk
        /\ (QueryLnk < FirstNode \/ QueryLnk > LastNode))
         => ret = FAILURE
    /\ (ppm.primordial_spec_type = analytic_Pk) => ret = SUCCESS

C1_Witness ==
  /\ Queried
  /\ ppm.primordial_spec_type = inflation_V
  /\ call.mode = logarithmic
  /\ call.input = LastNode
  /\ ret = SUCCESS

\* C2: in logarithmic mode with an analytic spectrum, after a successful query the
\* entry of every correlated pair ic1 < ic2 is P_12/sqrt(P_11 P_22), with P_11
\* and P_22 the linear diagonal spectra at the k of the query, and the diagonal
\* entries are ln P_11 and ln P_22, inside the tabulated range and outside it.
C2_CrossCorrelationAngle ==
  (Queried /\ call.mode = logarithmic /\ ret = SUCCESS
   /\ ppm.primordial_spec_type = analytic_Pk) =>
    LET m == call.index_mode
        n == ppm.ic_size[m]
        P(i, j) == primordial_analytic_spectrum(
                     ppm, m, index_symmetric_matrix(i, j, n), Exp(call.input))
    IN  \A p \in Pairs(n) :
          LET idx == index_symmetric_matrix(p[1], p[2], n)
          IN  /\ (p[1] = p[2]) => output[idx] = Log(P(p[1], p[1]))
              /\ (p[1] < p[2] /\ ppm.is_non_zero[m][idx]) =>
                   output[idx] = Div(P(p[1], p[2]),
                                     Sqrt(Mul(P(p[1], p[1]), P(p[2], p[2]))))

\* the same statement for the queries inside the tabulated range only
C2_InsideRange ==
  (Queried /\ ~OutOfRange(ppm, QueryLnk)) => C2_CrossCorrelationAngle

\* C3: with an analytic spectrum, a query in linear mode at a k outside the
\* tabulated range succeeds and leaves, for every pair ic1 <= ic2, the value of
\* primordial_analytic_spectrum for that pair at that k when the pair is flagged
\* non-zero, and 0 otherwise.
C3_DirectComputation ==
  (Queried /\ call.mode = linear /\ call.input > 0
   /\ ppm.primordial_spec_type = analytic_Pk
   /\ (QueryLnk < FirstNode \/ QueryLnk > LastNode)) =>
    /\ ret = SUCCESS
    /\ \A idx \in 0 .. ppm.ic_ic_size[call.index_mode] - 1 :
         output[idx] =
           IF ppm.is_non_zero[call.index_mode][idx]
           THEN primordial_analytic_spectrum(ppm, call.index_mode, idx, call.input)
           ELSE 0

C3_Witness ==
  /\ Queried /\ call.mode = linear /\ call.input > 0
  /\ ppm.primordial_spec_type = analytic_Pk
  /\ QueryLnk > LastNode
  /\ ret = SUCCESS
  /\ ppm.ic_size[call.index_mode] = 3
  /\ \E i, j \in 0 .. ppm.ic_ic_size[call.index_mode] - 1 :
       /\ ppm.is_non_zero[call.index_mode][i] /\ output[i] < 0
       /\ ~ppm.is_non_zero[call.index_mode][j]

\* C4: a query in linear mode with k <= 0 returns the error and leaves the output
\* array as it was; a query in logarithmic mode is never refused for its input:
\* it fails only when ln k is out of the range of a non-analytic table.
C4_NonPositiveK ==
  [][/\ (pc = "ready" /\ call'.mode = linear /\ call'.input <= 0)
          => (ret' = FAILURE /\ output' = output)
     /\ (pc = "ready" /\ call'.mode = logarithmic /\ ret' = FAILURE)
          => (ppm.primordial_spec_type # analytic_Pk
              /\ (call'.input < FirstNode \/ call'.input > LastNode))]_vars

C4_Witness ==
  /\ Queried /\ call.mode = linear /\ call.input <= 0
  /\ ret = FAILURE
  /\ \E i \in DOMAIN output : output[i] # 0

(***************************************************************************)
(* The inflation solver: the potential, the equations, the integrator      *)
(***************************************************************************)
\* V, dV/dphi and d2V/dphi2 of the polynomial potential
primordial_inflation_potential(p, phi) ==
  LET x == phi - p.phi_pivot
  IN  [V   |-> p.V0 + Mul(x, p.V1) + Mul(Div(Pow(x, 2), R(2)), p.V2)
                 + Mul(Div(Pow(x, 3), R(6)), p.V3) + Mul(Div(Pow(x, 4), R(24)), p.V4),
       dV  |-> p.V1 + Mul(x, p.V2) + Mul(Div(Pow(x, 2), R(2)), p.V3)
                 + Mul(Div(Pow(x, 3), R(6)), p.V4),
       ddV |-> p.V2 + Mul(x, p.V3) + Mul(Div(Pow(x, 2), R(2)), p.V4)]

\* the two tests of primordial_inflation_check_potential on the potential v:
\* the message of the one that fails, "" when both pass
PotentialTests(v) ==
  IF v.V <= 0 THEN "potential becomes negative"
  ELSE IF v.dV >= 0 THEN "dV/dphi is not negative"
  ELSE ""

primordial_inflation_check_potential(p, phi) ==
  PotentialTests(primordial_inflation_potential(p, phi))

\* 1/16/pi * (dV/V)^2
Epsilon(v) == Mul(Div(Div(ONE, R(16)), PI), Pow(Div(v.dV, v.V), 2))

primordial_inflation_get_epsilon(p, phi) ==
  Epsilon(primordial_inflation_potential(p, phi))

EightPiOverThree == Div(Mul(R(8), PI), R(3))

\* a H = a'/a = sqrt(8 pi/3 (dphi^2/2 + a^2 V))
ConformalHubble(a, dphi, V) ==
  Sqrt(Mul(EightPiOverThree, Mul(Mul(HALF, dphi), dphi) + Mul(Mul(a, a), V)))

\* H = sqrt(8 pi/3 (dphidt^2/2 + V))
Hubble(dphidt, V) ==
  Sqrt(Mul(EightPiOverThree, Mul(Mul(HALF, dphidt), dphidt) + V))

\* the background part of primordial_inflation_derivs
DerivsBackground(yy, d, aH, a2dV) ==
  [d EXCEPT !.a = Mul(yy.a, aH),
            !.phi = yy.dphi,
            !.dphi = Mul(Mul(-R(2), aH), yy.dphi) - a2dV]

\* z''/z and a''/a
ZppOverZ(dphi, aH, a2dV, a2ddV) ==
  Mul(Mul(R(2), aH), aH) - a2ddV
    - Mul(Mul(R(4), PI),
          Mul(Mul(R(7), dphi), dphi) + Mul(Div(Mul(R(4), dphi), aH), a2dV))
    + Div(Mul(Mul(Mul(R(32), PI), PI), Pow(dphi, 4)), Pow(aH, 2))
AppOverA(dphi, aH) ==
  Mul(Mul(R(2), aH), aH) - Mul(Mul(Mul(R(4), PI), dphi), dphi)

\* the perturbation part of primordial_inflation_derivs: scalars, then tensors;
\* ks and kt are k^2 - z''/z and k^2 - a''/a
DerivsPerturbations(yy, d, ks, kt) ==
  [d EXCEPT !.ksi_re = yy.dksi_re,
            !.ksi_im = yy.dksi_im,
            !.dksi_re = -Mul(ks, yy.ksi_re),
            !.dksi_im = -Mul(ks, yy.ksi_im),
            !.ah_re = yy.dah_re,
            !.ah_im = yy.dah_im,
            !.dah_re = -Mul(kt, yy.ah_re),
            !.dah_im = -Mul(kt, yy.ah_im)]

DerivsWith(p, yy, d, N, k, aH, a2dV, a2ddV) ==
  IF N = p.in_bg_size THEN DerivsBackground(yy, d, aH, a2dV)
  ELSE DerivsPerturbations(yy, DerivsBackground(yy, d, aH, a2dV),
                           Mul(k, k) - ZppOverZ(yy.dphi, aH, a2dV, a2ddV),
                           Mul(k, k) - AppOverA(yy.dphi, aH))

DerivsAt(p, yy, d, N, k, v) ==
  DerivsWith(p, yy, d, N, k, ConformalHubble(yy.a, yy.dphi, v.V),
             Mul(Mul(yy.a, yy.a), v.dV), Mul(Mul(yy.a, yy.a), v.ddV))

\* primordial_inflation_derivs for a workspace of size N and wavenumber k: the
\* new content of dy (the slots beyond N keep what d held)
primordial_inflation_derivs(p, yy, d, N, k) ==
  DerivsAt(p, yy, d, N, k, primordial_inflation_potential(p, yy.phi))

\* the step of the background loops:
\* bg_stepsize * min(1/aH, |y[dphi] / dy[dphi]|), with aH = dy[a]/y[a]
BackgroundStep(pr, yy, d) ==
  Mul(pr.primordial_inflation_bg_stepsize,
      Min(Div(ONE, Div(d.a, yy.a)), Fabs(Div(yy.dphi, d.dphi))))

\* max(sqrt(fabs(q)), k), max() being ((a) > (b) ? (a) : (b)): k when q is
\* not a number
MaxFrequency(q, k) ==
  IF q = NaN THEN k ELSE IF Sqrt(Fabs(q)) > k THEN Sqrt(Fabs(q)) ELSE k

\* the step of the loop over one k: pt_stepsize * 2 pi / max(sqrt|dy/y|, k)
PerturbationStep(pr, yy, d, k) ==
  Div(Mul(Mul(pr.primordial_inflation_pt_stepsize, R(2)), PI),
      MaxFrequency(Div(d.dksi_re, yy.ksi_re), k))

\* y + dy * dtau on the N slots that are integrated
Advanced(p, yy, d, dtau, N) ==
  [f \in DOMAIN yy |->
     IF f \in BgSlots \/ N = p.in_size THEN yy[f] + Mul(d[f], dtau) ELSE yy[f]]

\* the mode functions as integrated, or one of the two, with its derivative,
\* at zero
Vanished(yy, q) ==
  IF q = "scalar"
  THEN [yy EXCEPT !.ksi_re = 0, !.ksi_im = 0, !.dksi_re = 0, !.dksi_im = 0]
  ELSE IF q = "tensor"
  THEN [yy EXCEPT !.ah_re = 0, !.ah_im = 0, !.dah_re = 0, !.dah_im = 0]
  ELSE yy

\* the integrator gives up beyond this scale factor
LargestScaleFactor == R(64)

\* what the integrator may return when the integrated state is y1
Outcomes(p, yy, N, y1) ==
  {[ret |-> FAILURE, y |-> yy]} \cup
  {[ret |-> SUCCESS, y |-> Vanished(y1, q)] :
     q \in IF y1.a > LargestScaleFactor THEN {}
           ELSE IF N = p.in_bg_size THEN {"stay"} ELSE {"stay", "scalar", "tensor"}}

\* generic_integrator from tau to tau + dtau with primordial_inflation_derivs
\* as the right-hand side: it fails, or it leaves in y the state advanced by
\* dtau along the derivatives (one explicit step); with the perturbations
\* (N = in_size) a mode function may come out as zero; it always fails when
\* the step would take the scale factor beyond LargestScaleFactor
IntegratorOutcomes(p, yy, d, dtau, N, k) ==
  Outcomes(p, yy, N, Advanced(p, yy, primordial_inflation_derivs(p, yy, d, N, k), dtau, N))

\* what the integrator returned before for this input
Known(in) == {r \in known.map : r.in = in}

\* generic_integrator: a function of its input when the history is kept
generic_integrator(p, yy, d, dtau, N, k) ==
  IF known.on /\ Known([y |-> yy, dtau |-> dtau, N |-> N]) # {}
  THEN {r.out : r \in Known([y |-> yy, dtau |-> dtau, N |-> N])}
  ELSE IntegratorOutcomes(p, yy, d, dtau, N, k)

Remember(yy, dtau, N, out) ==
  IF known.on
  THEN [known EXCEPT !.map = @ \cup {[in |-> [y |-> yy, dtau |-> dtau, N |-> N],
                                      out |-> out]}]
  ELSE known

\* V <= 0 or dV >= 0 at phi
Invalid(p, phi) == primordial_inflation_check_potential(p, phi) # ""

(***************************************************************************)
(* The inflation solver as a machine: calls, returns, and the steps of     *)
(* each routine between two calls                                          *)
(***************************************************************************)
fixed == <<ppr, ppt, call, output, access, twice>>

\* stay in the routine, at label l
Goto(l) == pc' = l /\ UNCHANGED <<stack, ret, error_message>>

\* class_call(callee(...)): enter the callee; the caller resumes at cont
Call(entry, cont) ==
  pc' = entry /\ stack' = <<cont>> \o stack /\ UNCHANGED <<ret, error_message>>

\* return status to the caller; the routine that fails first leaves its message
Return(status, msg) ==
  /\ ret' = status
  /\ error_message' = IF msg # "" /\ error_message = "" THEN msg ELSE error_message
  /\ IF stack = << >> THEN pc' = "done" /\ stack' = stack
     ELSE pc' = Head(stack) /\ stack' = Tail(stack)

\* the values an uninitialized double holds when it is read
Uninitialized == {0, -(ONE \div 4)}

\* the 1.e10 given to curvature_new before the first step of one k
HugeCurvature == R(2 ^ 12)

\* -dV/3/sqrt(8 pi/3 V): the slow-roll velocity
SlowRoll(v) == Div(Div(-v.dV, R(3)), Sqrt(Mul(EightPiOverThree, v.V)))

Background(a, phi, dphi) == [y EXCEPT !.a = a, !.phi = phi, !.dphi = dphi]

(* primordial_inflation_solve_inflation *)
solve_inflation_begin ==
  /\ pc = "solve_inflation"
  /\ heap' = {"y", "y_ini", "dy"}
  /\ si' = SiZero
  /\ LET msg == primordial_inflation_check_potential(ppm, ppm.phi_pivot)
     IN  IF msg # "" THEN Return(FAILURE, msg) /\ fa' = fa
         ELSE /\ fa' = [FaZero EXCEPT
                          !.phi_0 = ppm.phi_pivot,
                          !.precision = ppr.primordial_inflation_attractor_precision_pivot,
                          !.out = "pivot"]
              /\ Call("find_attractor", "solve_inflation:pivot")
  /\ UNCHANGED <<ppm, y, dy, y_ini, sp, ok, eb, ra, gi, visited, known>>
  /\ UNCHANGED fixed

solve_inflation_pivot ==
  /\ pc = "solve_inflation:pivot"
  /\ IF ret = FAILURE
     THEN Return(FAILURE, "") /\ si' = SiZero /\ UNCHANGED <<y, ra, visited>>
     ELSE LET a_pivot == Div(ppm.k_pivot, si.H_pivot)
              k_max == Exp(ppm.lnk[ppm.lnk_size - 1])
          IN  /\ si' = [si EXCEPT !.a_pivot = a_pivot]
              /\ y' = Background(a_pivot, ppm.phi_pivot, Mul(a_pivot, si.dphidt_pivot))
              /\ visited' = (visited \/ Invalid(ppm, ppm.phi_pivot))
              /\ ra' = [RaZero EXCEPT
                          !.aH_stop = Div(k_max, ppr.primordial_inflation_ratio_max)]
              /\ Call("reach_aH", "solve_inflation:reached")
  /\ UNCHANGED <<ppm, dy, y_ini, sp, ok, fa, eb, gi, heap, known>>
  /\ UNCHANGED fixed

solve_inflation_reached ==
  /\ pc = "solve_inflation:reached"
  /\ IF ret = FAILURE
     THEN Return(FAILURE, "") /\ si' = SiZero
     ELSE /\ si' = [si EXCEPT
                      !.aH_ini = Div(Exp(ppm.lnk[0]), ppr.primordial_inflation_ratio_min),
                      !.a_try = si.a_pivot,
                      !.H_try = si.H_pivot,
                      !.phi_try = ppm.phi_pivot,
                      !.counter = 0]
          /\ Goto("solve_inflation:while")
  /\ UNCHANGED <<ppm, y, dy, y_ini, sp, ok, fa, eb, ra, gi, heap, visited, known>>
  /\ UNCHANGED fixed

\* class_test(counter >= phi_ini_maxit) after counter++
TooManyJumps(counter, maxit) == counter > maxit
ShootingCapReached(counter, maxit) == counter >= maxit

\* dphidt_try when the loop is left: what find_attractor wrote in the last
\* turn, or what the local held at entry when the body never ran
DphidtTry == IF si.counter = 0 THEN Uninitialized ELSE {si.dphidt_try}

\* the test of the shooting loop and, when it holds, the body up to the call
\* of find_attractor; when it does not, what follows the loop up to the call
\* of primordial_inflation_spectra
solve_inflation_while ==
  /\ pc = "solve_inflation:while"
  /\ IF Mul(si.a_try, si.H_try) >= si.aH_ini
     THEN IF ShootingCapReached(si.counter + 1, ppr.primordial_inflation_phi_ini_maxit)
          THEN /\ si' = SiZero
               /\ Return(FAILURE, "could not converge: initial phi")
               /\ UNCHANGED <<fa, y_ini>>
          ELSE LET v == primordial_inflation_potential(ppm, si.phi_try)
                   jump ==
                     Div(Div(Div(Mul(Mul(ppr.primordial_inflation_jump_initial,
                                         Log(Div(Mul(si.a_try, si.H_try), si.aH_ini))),
                                     v.dV),
                                 v.V),
                             R(8)),
                         PI)
               IN  /\ si' = [si EXCEPT !.counter = @ + 1, !.phi_try = @ + jump]
                   /\ fa' = [FaZero EXCEPT
                               !.phi_0 = si.phi_try + jump,
                               !.precision =
                                 ppr.primordial_inflation_attractor_precision_initial,
                               !.out = "try"]
                   /\ Call("find_attractor", "solve_inflation:try")
                   /\ y_ini' = y_ini
     ELSE /\ \E dphidt_try \in DphidtTry :
               y_ini' = [y_ini EXCEPT !.a = si.a_try, !.phi = si.phi_try,
                                      !.dphi = Mul(si.a_try, dphidt_try)]
          /\ Call("spectra", "solve_inflation:end")
          /\ UNCHANGED <<si, fa>>
  /\ UNCHANGED <<ppm, y, dy, sp, ok, eb, ra, gi, heap, visited, known>>
  /\ UNCHANGED fixed

solve_inflation_try ==
  /\ pc = "solve_inflation:try"
  /\ IF ret = FAILURE
     THEN Return(FAILURE, "") /\ si' = SiZero /\ UNCHANGED <<y, eb, visited>>
     ELSE /\ y' = Background(ONE, si.phi_try, Mul(ONE, si.dphidt_try))
          /\ visited' = (visited \/ Invalid(ppm, si.phi_try))
          /\ eb' = [EbZero EXCEPT !.phi_stop = ppm.phi_pivot]
          /\ Call("evolve_background", "solve_inflation:evolved")
          /\ si' = si
  /\ UNCHANGED <<ppm, dy, y_ini, sp, ok, fa, ra, gi, heap, known>>
  /\ UNCHANGED fixed

solve_inflation_evolved ==
  /\ pc = "solve_inflation:evolved"
  /\ IF ret = FAILURE
     THEN Return(FAILURE, "") /\ si' = SiZero
     ELSE /\ si' = [si EXCEPT !.a_try = Div(si.a_pivot, y.a)]
          /\ Goto("solve_inflation:while")
  /\ UNCHANGED <<ppm, y, dy, y_ini, sp, ok, fa, eb, ra, gi, heap, visited, known>>
  /\ UNCHANGED fixed

solve_inflation_end ==
  /\ pc = "solve_inflation:end"
  /\ IF ret = FAILURE
     THEN Return(FAILURE, "") /\ heap' = heap
     ELSE heap' = {} /\ Return(SUCCESS, "")
  /\ si' = SiZero
  /\ UNCHANGED <<ppm, y, dy, y_ini, sp, ok, fa, eb, ra, gi, visited, known>>
  /\ UNCHANGED fixed

(* primordial_inflation_spectra *)
spectra_begin ==
  /\ pc = "spectra"
  /\ LET msg == primordial_inflation_check_potential(ppm, y_ini.phi)
         v == primordial_inflation_potential(ppm, y_ini.phi)
         aH == ConformalHubble(y_ini.a, y_ini.dphi, v.V)
     IN  /\ sp' = SpZero
         /\ IF msg # "" THEN Return(FAILURE, msg)
            ELSE IF aH >= Div(Exp(ppm.lnk[0]), ppr.primordial_inflation_ratio_min)
            THEN Return(FAILURE, "at initial time, a_k_min > a*H*ratio_min")
            ELSE Goto("spectra:for")
  /\ UNCHANGED <<ppm, y, dy, y_ini, si, ok, fa, eb, ra, gi, heap, visited, known>>
  /\ UNCHANGED fixed

\* the test of the loop over k and, when it holds, the body up to the call of
\* primordial_inflation_reach_aH
spectra_for ==
  /\ pc = "spectra:for"
  /\ IF sp.index_k < ppm.lnk_size
     THEN LET k == Exp(ppm.lnk[sp.index_k])
          IN  /\ sp' = [sp EXCEPT !.k = k]
              /\ y' = Background(y_ini.a, y_ini.phi, y_ini.dphi)
              /\ visited' = (visited \/ Invalid(ppm, y_ini.phi))
              /\ ra' = [RaZero EXCEPT
                          !.aH_stop = Div(k, ppr.primordial_inflation_ratio_min)]
              /\ Call("reach_aH", "spectra:reached")
     ELSE Return(SUCCESS, "") /\ sp' = SpZero /\ UNCHANGED <<y, visited, ra>>
  /\ UNCHANGED <<ppm, dy, y_ini, si, ok, fa, eb, gi, heap, known>>
  /\ UNCHANGED fixed

spectra_reached ==
  /\ pc = "spectra:reached"
  /\ IF ret = FAILURE
     THEN Return(FAILURE, "") /\ sp' = SpZero /\ ok' = ok
     ELSE ok' = [OkZero EXCEPT !.k = sp.k] /\ Call("one_k", "spectra:one_k") /\ sp' = sp
  /\ UNCHANGED <<ppm, y, dy, y_ini, si, fa, eb, ra, gi, heap, visited, known>>
  /\ UNCHANGED fixed

\* the same entry written one wavenumber too far down
WriteLnpkBelow(p, m, index_k, value) ==
  [p EXCEPT !.lnpk[m][(IF index_k > 0 THEN index_k - 1 ELSE 0) * p.ic_ic_size[m]] = value,
            !.is_non_zero[m][0] = TRUE]

\* the table entry of wavenumber index_k in mode m
WriteLnpk(p, m, index_k, value) ==
  [p EXCEPT !.lnpk[m][index_k * p.ic_ic_size[m]] = value,
            !.is_non_zero[m][0] = TRUE]

\* the condition of the class_test made on each of the two spectra
Negative(x) == x # NaN /\ x < 0
NonPositiveOrZero(x) == Le(x, 0)

\* the same step when the return code of primordial_inflation_one_k is not
\* looked at
spectra_one_k_unchecked ==
  /\ pc = "spectra:one_k"
  /\ ppm' = WriteLnpk(WriteLnpk(ppm, ppt.index_md_scalars, sp.index_k,
                                Log(sp.curvature)),
                      ppt.index_md_tensors, sp.index_k, Log(sp.tensors))
  /\ sp' = [sp EXCEPT !.index_k = @ + 1]
  /\ Goto("spectra:for")
  /\ UNCHANGED <<y, dy, y_ini, si, ok, fa, eb, ra, gi, heap, visited, known>>
  /\ UNCHANGED fixed

\* after primordial_inflation_one_k: the two tests, then the two entries
spectra_one_k ==
  /\ pc = "spectra:one_k"
  /\ IF ret = FAILURE
     THEN Return(FAILURE, "") /\ sp' = SpZero /\ ppm' = ppm
     ELSE IF NonPositiveOrZero(sp.curvature)
     THEN Return(FAILURE, "negative curvature spectrum") /\ sp' = SpZero /\ ppm' = ppm
     ELSE IF NonPositiveOrZero(sp.tensors)
     THEN Return(FAILURE, "negative tensor spectrum") /\ sp' = SpZero /\ ppm' = ppm
     ELSE /\ ppm' = WriteLnpk(WriteLnpk(ppm, ppt.index_md_scalars, sp.index_k,
                                        Log(sp.curvature)),
                              ppt.index_md_tensors, sp.index_k, Log(sp.tensors))
          /\ sp' = [sp EXCEPT !.index_k = @ + 1]
          /\ Goto("spectra:for")
  /\ UNCHANGED <<y, dy, y_ini, si, ok, fa, eb, ra, gi, heap, visited, known>>
  /\ UNCHANGED fixed

(* primordial_inflation_one_k *)
\* the same initial conditions given to the scalar mode function only
ModeFunctionsScalarOnly(yy, k, ksi) ==
  [yy EXCEPT !.ksi_re = ksi, !.ksi_im = 0, !.dksi_re = 0, !.dksi_im = Mul(-k, ksi)]

\* the initial conditions of the mode functions, of modulus 1/sqrt(2k)
ModeFunctions(yy, k, ksi) ==
  [yy EXCEPT !.ksi_re = ksi, !.ksi_im = 0, !.dksi_re = 0, !.dksi_im = Mul(-k, ksi),
             !.ah_re = ksi, !.ah_im = 0, !.dah_re = 0, !.dah_im = Mul(-k, ksi)]

OneKStart(y1, d1) ==
  /\ y' = y1
  /\ dy' = d1
  /\ ok' = [ok EXCEPT !.curvature_new = HugeCurvature,
                      !.dtau = PerturbationStep(ppr, y1, d1, ok.k)]

OneKInitial(y1) ==
  OneKStart(y1, primordial_inflation_derivs(ppm, y1, dy, ppm.in_size, ok.k))

one_k_begin ==
  /\ pc = "one_k"
  /\ gi' = gi \cup {"one_k"}
  /\ OneKInitial(ModeFunctions(y, ok.k, Div(ONE, Sqrt(Mul(R(2), ok.k)))))
  /\ Goto("one_k:do")
  /\ UNCHANGED <<ppm, y_ini, si, sp, fa, eb, ra, heap, visited, known>>
  /\ UNCHANGED fixed

\* k^3/2/pi^2 * |ksi|^2 / z^2, with z = a dphi / aH
CurvatureOf(k, ksi2, z) ==
  Div(Div(Mul(Div(Div(Div(Mul(Mul(k, k), k), R(2)), PI), PI), ksi2), z), z)
Curvature(k, yy, aH) ==
  CurvatureOf(k, Mul(yy.ksi_re, yy.ksi_re) + Mul(yy.ksi_im, yy.ksi_im),
              Div(Mul(yy.a, yy.dphi), aH))

\* d ln P / d N = (new - old)/dtau * a/a' / new
Variation(new, old, dtau, yy, d) ==
  Div(Div(Mul(Div(new - old, dtau), yy.a), d.a), new)

\* the condition of the do ... while
OneKFurtherBoth(k, aH, dlnPdN) ==
  IF Div(k, aH) >= ppr.primordial_inflation_ratio_max
  THEN Gt(Fabs(dlnPdN), ppr.primordial_inflation_tol_curvature)
  ELSE FALSE
OneKFurther(k, aH, dlnPdN) ==
  IF Div(k, aH) >= ppr.primordial_inflation_ratio_max THEN TRUE
  ELSE Gt(Fabs(dlnPdN), ppr.primordial_inflation_tol_curvature)

OneKTest(d1, dtau, aH, curvature_new, dlnPdN) ==
  /\ dy' = d1
  /\ ok' = [ok EXCEPT !.dtau = dtau, !.curvature_new = curvature_new]
  /\ IF OneKFurther(ok.k, aH, dlnPdN) THEN Goto("one_k:do") ELSE Goto("one_k:end")

OneKCurvature(yy, d1, dtau, aH, curvature_new) ==
  OneKTest(d1, dtau, aH, curvature_new,
           Variation(curvature_new, ok.curvature_new, dtau, yy, d1))

OneKStepped(yy, d1, aH) ==
  OneKCurvature(yy, d1, PerturbationStep(ppr, yy, d1, ok.k), aH,
                Curvature(ok.k, yy, aH))

OneKDerivs(yy, d1) == OneKStepped(yy, d1, Div(d1.a, yy.a))

\* one turn of the do ... while: the step, the derivatives, the next step
\* size, the curvature and its variation, and the test
one_k_do ==
  /\ pc = "one_k:do"
  /\ \E r \in generic_integrator(ppm, y, dy, ok.dtau, ppm.in_size, ok.k) :
       /\ known' = Remember(y, ok.dtau, ppm.in_size, r)
       /\ y' = r.y
       /\ visited' = (visited \/ Invalid(ppm, r.y.phi))
       /\ IF r.ret = FAILURE
          THEN Return(FAILURE, "generic_integrator") /\ ok' = OkZero /\ dy' = dy
          ELSE OneKDerivs(r.y,
                          primordial_inflation_derivs(ppm, r.y, dy, ppm.in_size, ok.k))
  /\ UNCHANGED <<ppm, y_ini, si, sp, fa, eb, ra, gi, heap>>
  /\ UNCHANGED fixed

\* 32 k^3/pi * |ah|^2 / a^2
Tensor(k, yy) ==
  Div(Div(Mul(Div(Mul(Mul(Mul(R(32), k), k), k), PI),
              Mul(yy.ah_re, yy.ah_re) + Mul(yy.ah_im, yy.ah_im)),
          yy.a),
      yy.a)

one_k_end ==
  /\ pc = "one_k:end"
  /\ gi' = gi \ {"one_k"}
  /\ sp' = [sp EXCEPT !.curvature = ok.curvature_new, !.tensors = Tensor(ok.k, y)]
  /\ ok' = OkZero
  /\ Return(SUCCESS, "")
  /\ UNCHANGED <<ppm, y, dy, y_ini, si, fa, eb, ra, heap, visited, known>>
  /\ UNCHANGED fixed

(* primordial_inflation_find_attractor *)
\* the first guess when phi is given the value phi_0 before the potential is
\* evaluated
find_attractor_begin_at_phi_0 ==
  /\ pc = "find_attractor"
  /\ LET v == primordial_inflation_potential(ppm, fa.phi_0)
         dphidt_0new == SlowRoll([V |-> v.V, dV |-> v.dV])
     IN  fa' = [fa EXCEPT
                  !.V_0 = v.V, !.dV_0 = v.dV,
                  !.dphidt_0new = dphidt_0new,
                  !.phi = fa.phi_0,
                  !.counter = 0,
                  !.dphidt_0old = Div(dphidt_0new, fa.precision + R(2))]
  /\ Goto("find_attractor:while")
  /\ UNCHANGED <<ppm, y, dy, y_ini, si, sp, ok, eb, ra, gi, heap, visited, known>>
  /\ UNCHANGED fixed

\* the first guess, made from the potential at the local phi, which has not
\* been given a value yet
find_attractor_begin ==
  /\ pc = "find_attractor"
  /\ \E phi \in Uninitialized :
       LET v == primordial_inflation_potential(ppm, phi)
           dphidt_0new == SlowRoll([V |-> v.V, dV |-> v.dV])
       IN  fa' = [fa EXCEPT
                    !.V_0 = v.V, !.dV_0 = v.dV,
                    !.dphidt_0new = dphidt_0new,
                    !.phi = fa.phi_0,
                    !.counter = 0,
                    !.dphidt_0old = Div(dphidt_0new, fa.precision + R(2))]
  /\ Goto("find_attractor:while")
  /\ UNCHANGED <<ppm, y, dy, y_ini, si, sp, ok, eb, ra, gi, heap, visited, known>>
  /\ UNCHANGED fixed

\* class_test(counter >= attractor_maxit) after counter++
TooManyTurns(counter, maxit) == counter > maxit
AttractorCapReached(counter, maxit) == counter >= maxit

\* *H_0 and *dphidt_0 are the locals of the caller
AttractorFound(H_0, dphidt_0) ==
  IF fa.out = "pivot"
  THEN si' = [si EXCEPT !.H_pivot = H_0, !.dphidt_pivot = dphidt_0] /\ twice' = twice
  ELSE IF fa.out = "try"
  THEN si' = [si EXCEPT !.H_try = H_0, !.dphidt_try = dphidt_0] /\ twice' = twice
  ELSE si' = si /\ twice' = [twice EXCEPT !.H_0 = H_0, !.dphidt_0 = dphidt_0]

\* the test of the loop and, when it holds, the body up to the call of
\* primordial_inflation_evolve_background; when it does not, the results
find_attractor_while ==
  /\ pc = "find_attractor:while"
  /\ IF Fabs(Div(fa.dphidt_0new, fa.dphidt_0old) - ONE) >= fa.precision
     THEN IF AttractorCapReached(fa.counter + 1, ppr.primordial_inflation_attractor_maxit)
          THEN /\ fa' = FaZero
               /\ Return(FAILURE, "could not converge: no attractor")
               /\ UNCHANGED <<y, eb, visited, si, twice>>
          ELSE LET phi == fa.phi + Div(Div(Div(fa.dV_0, fa.V_0), R(16)), PI)
                   msg == primordial_inflation_check_potential(ppm, phi)
                   v == primordial_inflation_potential(ppm, phi)
                   a == ONE
                   dphidt == SlowRoll(v)
               IN  /\ IF msg # ""
                      THEN /\ Return(FAILURE, msg)
                           /\ fa' = FaZero
                           /\ UNCHANGED <<y, eb, visited>>
                      ELSE /\ fa' = [fa EXCEPT !.counter = @ + 1,
                                               !.dphidt_0old = fa.dphidt_0new,
                                               !.phi = phi]
                           /\ y' = Background(a, phi, Mul(a, dphidt))
                           /\ visited' = (visited \/ Invalid(ppm, phi))
                           /\ eb' = [EbZero EXCEPT !.phi_stop = fa.phi_0]
                           /\ Call("evolve_background", "find_attractor:evolved")
                   /\ UNCHANGED <<si, twice>>
     ELSE /\ AttractorFound(Hubble(fa.dphidt_0new, fa.V_0), fa.dphidt_0new)
          /\ Return(SUCCESS, "")
          /\ fa' = FaZero
          /\ UNCHANGED <<y, eb, visited>>
  /\ UNCHANGED <<ppm, dy, y_ini, sp, ok, ra, gi, heap, known>>
  /\ UNCHANGED <<ppr, ppt, call, output, access>>

find_attractor_evolved ==
  /\ pc = "find_attractor:evolved"
  /\ IF ret = FAILURE
     THEN Return(FAILURE, "") /\ fa' = FaZero
     ELSE /\ fa' = [fa EXCEPT !.dphidt_0new = Div(y.dphi, y.a)]
          /\ Goto("find_attractor:while")
  /\ UNCHANGED <<ppm, y, dy, y_ini, si, sp, ok, eb, ra, gi, heap, visited, known>>
  /\ UNCHANGED fixed

(* primordial_inflation_evolve_background *)
EvolveStart(d1) ==
  /\ dy' = d1
  /\ eb' = [eb EXCEPT
              !.epsilon = primordial_inflation_get_epsilon(ppm, y.dphi),
              !.dtau = BackgroundStep(ppr, y, d1)]

evolve_background_begin ==
  /\ pc = "evolve_background"
  /\ gi' = gi \cup {"evolve_background"}
  /\ EvolveStart(primordial_inflation_derivs(ppm, y, dy, ppm.in_bg_size, 0))
  /\ Goto("evolve_background:while")
  /\ UNCHANGED <<ppm, y, y_ini, si, sp, ok, fa, ra, heap, visited, known>>
  /\ UNCHANGED fixed

\* the test of the loop
EvolveFurther == y.phi <= eb.phi_stop - Mul(y.dphi, eb.dtau)

\* the test made on epsilon after a step
EpsilonCrossesOne(epsilon, epsilon_old) == Gt(epsilon, ONE) /\ Le(epsilon_old, ONE)

EvolveStepped(r, dtau, epsilon) ==
  /\ known' = Remember(y, dtau, ppm.in_bg_size, r)
  /\ y' = r.y
  /\ visited' = (visited \/ Invalid(ppm, r.y.phi))
  /\ IF r.ret = FAILURE
     THEN eb' = EbZero /\ Return(FAILURE, "generic_integrator")
     ELSE IF EpsilonCrossesOne(epsilon, eb.epsilon)
     THEN eb' = EbZero /\ Return(FAILURE, "epsilon crosses 1")
     ELSE /\ eb' = [eb EXCEPT !.dtau = dtau, !.epsilon = epsilon]
          /\ Goto("evolve_background:while")

EvolveStep(d1, dtau) ==
  /\ dy' = d1
  /\ \E r \in generic_integrator(ppm, y, d1, dtau, ppm.in_bg_size, 0) :
       EvolveStepped(r, dtau, primordial_inflation_get_epsilon(ppm, r.y.dphi))

EvolveTurn(msg, d1) ==
  IF msg # ""
  THEN Return(FAILURE, msg) /\ eb' = EbZero /\ UNCHANGED <<y, dy, visited, known>>
  ELSE EvolveStep(d1, BackgroundStep(ppr, y, d1))

\* one turn of the loop: the test of the potential, the derivatives, the step
\* size, the step, and the test of epsilon
evolve_background_while ==
  /\ pc = "evolve_background:while"
  /\ EvolveFurther
  /\ EvolveTurn(primordial_inflation_check_potential(ppm, y.phi),
                primordial_inflation_derivs(ppm, y, dy, ppm.in_bg_size, 0))
  /\ UNCHANGED <<ppm, y_ini, si, sp, ok, fa, ra, gi, heap>>
  /\ UNCHANGED fixed

\* dtau of the last, linear, step: (phi_stop - y[phi]) / dy[dphi]
LastStep(phi_stop, yy, d) == Div(phi_stop - yy.phi, d.dphi)

\* y += dy * dtau on the background
Moved(yy, d, dtau) ==
  [yy EXCEPT !.a = @ + Mul(d.a, dtau),
             !.phi = @ + Mul(d.phi, dtau),
             !.dphi = @ + Mul(d.dphi, dtau)]

EvolveLanded(d1, dtau, y1) ==
  /\ dy' = d1
  /\ eb' = EbZero
  /\ y' = y1
  /\ visited' = (visited \/ Invalid(ppm, y1.phi))

EvolveLast(d1, dtau) == EvolveLanded(d1, dtau, Moved(y, d1, dtau))

EvolveFinish(d1) == EvolveLast(d1, LastStep(eb.phi_stop, y, d1))

\* after the loop: the workspace is released and the state is moved by LastStep
evolve_background_end ==
  /\ pc = "evolve_background:while"
  /\ ~EvolveFurther
  /\ gi' = gi \ {"evolve_background"}
  /\ EvolveFinish(primordial_inflation_derivs(ppm, y, dy, ppm.in_bg_size, 0))
  /\ Return(SUCCESS, "")
  /\ UNCHANGED <<ppm, y_ini, si, sp, ok, fa, ra, heap, known>>
  /\ UNCHANGED fixed

(* primordial_inflation_reach_aH *)
reach_aH_begin ==
  /\ pc = "reach_aH"
  /\ gi' = gi \cup {"reach_aH"}
  /\ dy' = primordial_inflation_derivs(ppm, y, dy, ppm.in_bg_size, 0)
  /\ Goto("reach_aH:while")
  /\ UNCHANGED <<ppm, y, y_ini, si, sp, ok, fa, eb, ra, heap, visited, known>>
  /\ UNCHANGED fixed

\* the same test made on the derivatives of y as it is now
ReachFurtherFresh ==
  Div(primordial_inflation_derivs(ppm, y, dy, ppm.in_bg_size, 0).a, y.a) < ra.aH_stop

\* the test of the loop: dy is the one of the last call of the derivatives
ReachFurther == Div(dy.a, y.a) < ra.aH_stop

ReachStep(d1, dtau) ==
  /\ dy' = d1
  /\ \E r \in generic_integrator(ppm, y, d1, dtau, ppm.in_bg_size, 0) :
       /\ known' = Remember(y, dtau, ppm.in_bg_size, r)
       /\ y' = r.y
       /\ visited' = (visited \/ Invalid(ppm, r.y.phi))
       /\ IF r.ret = FAILURE
          THEN Return(FAILURE, "generic_integrator") /\ ra' = RaZero
          ELSE Goto("reach_aH:while") /\ ra' = ra

ReachTurn(msg, d1) ==
  IF msg # ""
  THEN Return(FAILURE, msg) /\ ra' = RaZero /\ UNCHANGED <<y, dy, visited, known>>
  ELSE ReachStep(d1, BackgroundStep(ppr, y, d1))

reach_aH_while ==
  /\ pc = "reach_aH:while"
  /\ ReachFurther
  /\ ReachTurn(primordial_inflation_check_potential(ppm, y.phi),
               primordial_inflation_derivs(ppm, y, dy, ppm.in_bg_size, 0))
  /\ UNCHANGED <<ppm, y_ini, si, sp, ok, fa, eb, gi, heap>>
  /\ UNCHANGED fixed

reach_aH_end ==
  /\ pc = "reach_aH:while"
  /\ ~ReachFurther
  /\ gi' = gi \ {"reach_aH"}
  /\ ra' = RaZero
  /\ Return(SUCCESS, "")
  /\ UNCHANGED <<ppm, y, dy, y_ini, si, sp, ok, fa, eb, heap, visited, known>>
  /\ UNCHANGED fixed

(* primordial_init in the state machine *)
InitReturns(res) ==
  /\ ppm' = res.ppm
  /\ Return(res.ret, IF res.ret = FAILURE THEN "primordial_init" ELSE "")

InitBegins(g) ==
  IF ppt.has_perturbations /\ g.ok
     /\ ppm.primordial_spec_type = inflation_V /\ ~InflationRequestRejected(ppt)
  THEN /\ ppm' = primordial_inflation_indices(g.ppm)
       /\ Call("solve_inflation", "primordial_init:spline")
  ELSE InitReturns(primordial_init(ppr, ppt, ppm, [ok |-> FALSE]))

\* primordial_init up to the call of primordial_inflation_solve_inflation; with
\* an analytic spectrum, or when a test fails, the whole of primordial_init
primordial_init_begin ==
  /\ pc = "primordial_init"
  /\ InitBegins(InitGrid(ppr, ppt, ppm))
  /\ UNCHANGED <<y, dy, y_ini, si, sp, ok, fa, eb, ra, gi, heap, visited, known>>
  /\ UNCHANGED fixed

\* primordial_init after primordial_inflation_solve_inflation: the splines and
\* the spectral parameters
primordial_init_end ==
  /\ pc = "primordial_init:spline"
  /\ IF ret = FAILURE
     THEN Return(FAILURE, "") /\ ppm' = ppm
     ELSE InitReturns(SpectralParameters(ppr, ppt, Splined(ppm)))
  /\ UNCHANGED <<y, dy, y_ini, si, sp, ok, fa, eb, ra, gi, heap, visited, known>>
  /\ UNCHANGED fixed

(***************************************************************************)
(* Spec: primordial_init with an inflationary potential                    *)
(***************************************************************************)
Init ==
  /\ \E precision \in {HALF, 0}, jump \in {R(2), ONE \div 4},
        stepsize \in {ONE \div 4, HALF},
        ratio_min \in {ONE + HALF, ONE + 5 * (ONE \div 8)} :
       ppr = [Precision EXCEPT
                !.primordial_inflation_attractor_precision_pivot = precision,
                !.primordial_inflation_jump_initial = jump,
                !.primordial_inflation_bg_stepsize = stepsize,
                !.primordial_inflation_ratio_min = ratio_min]
  /\ \E has_tensors \in BOOLEAN :
       ppt = Perturbs(has_tensors, FALSE, FALSE, R(2), R(8))
  /\ \E V1 \in {-R(4), 0}, V3 \in {0, R(200)} :
       ppm = [Primordial(inflation_V, R(1), 0) EXCEPT
                !.k_pivot = R(4), !.V1 = V1, !.V3 = V3]
  /\ pc = "primordial_init"
  /\ ret = SUCCESS
  /\ call = NoCall
  /\ output = [i \in 0 .. MaxPairs - 1 |-> 0]
  /\ InflationIdle

Next ==
  \/ primordial_init_begin
  \/ solve_inflation_begin
  \/ solve_inflation_pivot
  \/ solve_inflation_reached
  \/ solve_inflation_while
  \/ solve_inflation_try
  \/ solve_inflation_evolved
  \/ solve_inflation_end
  \/ spectra_begin
  \/ spectra_for
  \/ spectra_reached
  \/ spectra_one_k
  \/ one_k_begin
  \/ one_k_do
  \/ one_k_end
  \/ find_attractor_begin
  \/ find_attractor_while
  \/ find_attractor_evolved
  \/ evolve_background_begin
  \/ evolve_background_while
  \/ evolve_background_end
  \/ reach_aH_begin
  \/ reach_aH_while
  \/ reach_aH_end
  \/ primordial_init_end

Spec == Init /\ [][Next]_vars

TypeOK == pc # ""

(***************************************************************************)
(* Claims on the inflation solver, checked under Spec                      *)
(***************************************************************************)
\* C5: when a routine reached from primordial_init has returned a failure,
\* every step that follows is the return of a failure by the caller that was
\* waiting, up to primordial_init: the caller resumes nowhere else, and
\* neither the table, nor the spectral parameters, nor the state vector, nor
\* the initial state of the shooting search is written
C5_FailurePropagates ==
  [][ret = FAILURE /\ pc # "done" =>
       /\ ret' = FAILURE
       /\ pc' = (IF stack = << >> THEN "done" ELSE Head(stack))
       /\ stack' = (IF stack = << >> THEN stack ELSE Tail(stack))
       /\ ppm' = ppm /\ y' = y /\ dy' = dy /\ y_ini' = y_ini]_vars

\* the integrator has failed in primordial_inflation_one_k after the entries
\* of a first wavenumber were written, and primordial_init has returned the
\* failure
C5_Witness ==
  /\ pc = "done" /\ ret = FAILURE
  /\ error_message = "generic_integrator"
  /\ "one_k" \in gi
  /\ ppm.is_non_zero[ppt.index_md_scalars][0]

\* C6: after primordial_inflation_one_k has succeeded, a curvature or a tensor
\* spectrum that is negative or zero makes primordial_inflation_spectra fail
\* with the table as it was; the table is written only with both spectra
\* strictly positive, and the two entries are their logarithms
C6_PositiveSpectra ==
  [][pc = "spectra:one_k" /\ ret = SUCCESS =>
       /\ (sp.curvature <= 0 \/ sp.tensors <= 0) => ret' = FAILURE /\ ppm' = ppm
       /\ ppm' # ppm =>
            /\ sp.curvature > 0 /\ sp.tensors > 0
            /\ ppm'.lnpk[ppt.index_md_scalars][sp.index_k] = Log(sp.curvature)
            /\ ppm'.lnpk[ppt.index_md_tensors][sp.index_k] = Log(sp.tensors)]_vars

\* a curvature spectrum of zero has made primordial_init fail
C6_Witness ==
  /\ pc = "done" /\ ret = FAILURE
  /\ error_message = "negative curvature spectrum"

\* C7: primordial_init does not succeed after the state vector has taken a
\* field value where V <= 0 or dV/dphi >= 0
C7_ValidPotentialEverywhere == pc = "done" /\ ret = SUCCESS => ~visited

\* C8: when primordial_inflation_evolve_background has returned with success,
\* y[phi] is the phi_stop it was given (phi_0 in find_attractor, phi_pivot in
\* solve_inflation), up to the two units in the last place that the rounding
\* of the quotient and of the product may leave
C8_LandsOnPhiStop ==
  /\ pc = "find_attractor:evolved" /\ ret = SUCCESS =>
       Abs(y.phi - fa.phi_0) <= 2
  /\ pc = "solve_inflation:evolved" /\ ret = SUCCESS =>
       Abs(y.phi - ppm.phi_pivot) <= 2

\* C10: the body of the loop of find_attractor is entered with a counter below
\* attractor_maxit and that of the shooting loop with a counter below
\* phi_ini_maxit; the turn that takes a counter to its cap returns a failure
\* to the caller instead of running the body
C10_IterationCaps ==
  [][/\ fa'.counter < ppr.primordial_inflation_attractor_maxit
     /\ si'.counter < ppr.primordial_inflation_phi_ini_maxit
     /\ pc = "find_attractor:while"
          /\ Fabs(Div(fa.dphidt_0new, fa.dphidt_0old) - ONE) >= fa.precision
          /\ fa.counter + 1 >= ppr.primordial_inflation_attractor_maxit
        => ret' = FAILURE /\ pc' = Head(stack) /\ y' = y
     /\ pc = "solve_inflation:while"
          /\ Mul(si.a_try, si.H_try) >= si.aH_ini
          /\ si.counter + 1 >= ppr.primordial_inflation_phi_ini_maxit
        => ret' = FAILURE /\ pc' = Head(stack) /\ y' = y]_vars

\* the loop of find_attractor has run attractor_maxit - 1 times without
\* converging and primordial_init has failed for it
C10_Witness ==
  /\ pc = "done" /\ ret = FAILURE
  /\ error_message = "could not converge: no attractor"

\* the shooting loop has run phi_ini_maxit - 1 times without converging
C10_ShootingWitness ==
  /\ pc = "done" /\ ret = FAILURE
  /\ error_message = "could not converge: initial phi"

\* C11: the shooting loop of solve_inflation is left as soon as a_try*H_try is
\* at or below aH_ini = k_min/ratio_min, and the y_ini then handed to
\* primordial_inflation_spectra passes the test made there on a*H: the a*H of
\* y_ini, with the potential at y_ini[phi], is below k_min/ratio_min
C11_ShootingHandsAcceptedState ==
  [][pc = "solve_inflation:while" =>
       /\ Le(Mul(si.a_try, si.H_try), si.aH_ini) => pc' = "spectra"
       /\ pc' = "spectra" =>
            ConformalHubble(y_ini'.a, y_ini'.dphi,
                            primordial_inflation_potential(ppm, y_ini'.phi).V)
              < Div(Exp(ppm.lnk[0]), ppr.primordial_inflation_ratio_min)]_vars

\* C12: primordial_inflation_one_k returns only after a step of its loop, and a
\* step is the last one exactly when, on the state it leaves, k/aH is below
\* ratio_max and |dlnP/dN| is at or below tol_curvature
C12_ReturnsConverged ==
  [][/\ pc' = "one_k:end" => pc = "one_k:do"
     /\ pc = "one_k:do" /\ pc' \in {"one_k:do", "one_k:end"} =>
          LET aH == Div(dy'.a, y'.a)
              dlnPdN == Variation(ok'.curvature_new, ok.curvature_new, ok'.dtau, y', dy')
          IN  pc' = "one_k:end" <=>
                /\ Div(ok.k, aH) < ppr.primordial_inflation_ratio_max
                /\ dlnPdN # NaN
                /\ Abs(dlnPdN) <= ppr.primordial_inflation_tol_curvature]_vars

\* C12, amended: primordial_inflation_one_k returns only after a step of its
\* loop, and a step is the last one exactly when, on the state it leaves, k/aH
\* is below ratio_max and |dlnP/dN| > tol_curvature is false: |dlnP/dN| is at
\* or below tol_curvature, or dlnP/dN is not a number
C12_ReturnsUnlessVarying ==
  [][/\ pc' = "one_k:end" => pc = "one_k:do"
     /\ pc = "one_k:do" /\ pc' \in {"one_k:do", "one_k:end"} =>
          LET aH == Div(dy'.a, y'.a)
              dlnPdN == Variation(ok'.curvature_new, ok.curvature_new, ok'.dtau, y', dy')
          IN  pc' = "one_k:end" <=>
                /\ Div(ok.k, aH) < ppr.primordial_inflation_ratio_max
                /\ (dlnPdN = NaN
                    \/ Abs(dlnPdN) <= ppr.primordial_inflation_tol_curvature)]_vars

\* the loop has been left with a positive curvature and a positive step
C12_Witness ==
  /\ pc = "one_k:end"
  /\ ok.curvature_new > 0
  /\ ok.dtau > 0
  /\ Div(ok.k, Div(dy.a, y.a)) < ppr.primordial_inflation_ratio_max

\* primordial_inflation_spectra is running, or a routine it has called
InSpectra ==
  \/ pc \in {"spectra", "spectra:for", "spectra:reached", "spectra:one_k"}
  \/ \E i \in DOMAIN stack : stack[i] \in {"spectra:reached", "spectra:one_k"}

\* a state vector that holds the background of yy and nothing else
BackgroundOnly(yy) == [YZero EXCEPT !.a = yy.a, !.phi = yy.phi, !.dphi = yy.dphi]

\* C14: each wavenumber is treated afresh. The loop of
\* primordial_inflation_spectra hands y_ini's background to
\* primordial_inflation_reach_aH, whose first test reads derivatives made from
\* that background alone; primordial_inflation_one_k starts from mode functions,
\* derivatives, step and curvature made from the background it is given and k
\* alone, whatever y and dy held before; and y_ini is not written by the loop
C14_EachWavenumberAfresh ==
  [][/\ pc = "spectra:for" /\ pc' = "reach_aH" =>
          /\ BackgroundOnly(y') = BackgroundOnly(y_ini)
          /\ ra'.aH_stop = Div(Exp(ppm.lnk[sp.index_k]),
                               ppr.primordial_inflation_ratio_min)
     /\ pc = "reach_aH" /\ InSpectra =>
          dy'.a = primordial_inflation_derivs(ppm, BackgroundOnly(y), YZero,
                                              ppm.in_bg_size, 0).a
     /\ pc = "one_k" =>
          LET ksi == Div(ONE, Sqrt(Mul(R(2), sp.k)))
              y0 == [BackgroundOnly(y) EXCEPT
                       !.ksi_re = ksi, !.dksi_im = Mul(-sp.k, ksi),
                       !.ah_re = ksi, !.dah_im = Mul(-sp.k, ksi)]
              d0 == primordial_inflation_derivs(ppm, y0, YZero, ppm.in_size, ok.k)
          IN  /\ y' = y0
              /\ dy' = d0
              /\ ok' = [k |-> sp.k, dtau |-> PerturbationStep(ppr, y0, d0, sp.k),
                        curvature_new |-> HugeCurvature]
     /\ InSpectra => y_ini' = y_ini]_vars

\* primordial_inflation_one_k has just started on a wavenumber that is not the
\* first, with the entry of the one before it in the table
C14_Witness ==
  /\ pc = "one_k:do"
  /\ sp.index_k >= 1
  /\ ok.curvature_new = HugeCurvature
  /\ ppm.is_non_zero[ppt.index_md_scalars][0]

\* C15: the loops of the inflation core cannot run forever, whatever the
\* integrator returns. The loop of primordial_inflation_reach_aH has no
\* counter, so it can only end if a turn in which the integrator returns
\* leaves y or dy different from what the turn began with: a turn that ends in
\* the state it began in is repeated for as long as the integrator returns
C15_LoopsAdvance ==
  pc = "reach_aH:while" /\ ReachFurther /\ ~Invalid(ppm, y.phi) =>
    LET d1 == primordial_inflation_derivs(ppm, y, dy, ppm.in_bg_size, 0)
    IN  \A r \in generic_integrator(ppm, y, d1, BackgroundStep(ppr, y, d1),
                                     ppm.in_bg_size, 0) :
          r.ret = SUCCESS => r.y # y \/ d1 # dy

\* C17: in primordial_inflation_evolve_background the epsilon held at the test
\* of the loop, the one computed before the loop or after the last step, is
\* the slow-roll parameter of the potential at the field value y[phi] of the
\* state
C17_EpsilonAtField ==
  pc = "evolve_background:while" =>
    eb.epsilon = primordial_inflation_get_epsilon(ppm, y.phi)

\* C18 as stated: when primordial_inflation_reach_aH is about to return with
\* success, a'/a of the state it returns is at or above aH_stop, and the dy its
\* exit test has read holds the derivatives of that state
C18_TestOnReturnedState ==
  pc = "reach_aH:while" /\ ~ReachFurther =>
    LET d1 == primordial_inflation_derivs(ppm, y, dy, ppm.in_bg_size, 0)
    IN  Div(d1.a, y.a) >= ra.aH_stop /\ dy = d1

\* C18: the dy read by the test of the loop holds the derivatives of the state
\* before the last step (of the state itself when no step has been made); on
\* a successful return dy[a]/y[a] is at or above aH_stop for that dy and the
\* returned y, and so is a'/a of the returned state if a' has not decreased
\* over the last step
C18_TestOnLastDerivatives ==
  [][pc = "reach_aH:while" =>
       LET d0 == primordial_inflation_derivs(ppm, y, dy, ppm.in_bg_size, 0)
       IN  /\ pc' = "reach_aH:while" => dy' = d0
           /\ pc' # "reach_aH:while" /\ ret' = SUCCESS =>
                 /\ y' = y /\ dy' = dy
                 /\ Div(dy.a, y.a) >= ra.aH_stop
                 /\ d0.a >= dy.a => Div(d0.a, y.a) >= ra.aH_stop]_vars

\* primordial_inflation_reach_aH is about to return after a step, with a dy
\* that is not the derivative of the state it returns
C18_Witness ==
  /\ pc = "reach_aH:while" /\ ~ReachFurther
  /\ dy.a < primordial_inflation_derivs(ppm, y, dy, ppm.in_bg_size, 0).a

\* C19: the order of the steps of the inflation solver. The attractor is first
\* searched from the entry of solve_inflation, once the potential is valid at
\* phi_pivot; the forward primordial_inflation_reach_aH, to k_max/ratio_max,
\* starts when the pivot attractor is found, with a_pivot = k_pivot/H_pivot;
\* primordial_inflation_spectra starts when the shooting loop is left; in its
\* loop index_k goes up one by one from 0, and for each index reach_aH has
\* returned before one_k starts, and one_k before the two entries of that
\* index, and no other, are written
C19_Sequence ==
  [][/\ pc' = "find_attractor" =>
          \/ pc = "solve_inflation"
               /\ primordial_inflation_check_potential(ppm, ppm.phi_pivot) = ""
          \/ pc = "solve_inflation:while" /\ si.a_pivot > 0
     /\ pc' = "reach_aH" =>
          \/ /\ pc = "solve_inflation:pivot" /\ ret = SUCCESS
             /\ si'.a_pivot = Div(ppm.k_pivot, si.H_pivot)
             /\ y'.a = si'.a_pivot
             /\ ra'.aH_stop = Div(Exp(ppm.lnk[ppm.lnk_size - 1]),
                                  ppr.primordial_inflation_ratio_max)
          \/ pc = "spectra:for"
     /\ pc' = "spectra" =>
          /\ pc = "solve_inflation:while"
          /\ Mul(si.a_try, si.H_try) < si.aH_ini
          /\ sp.index_k = 0
     /\ pc' = "one_k" => pc = "spectra:reached" /\ ret = SUCCESS
     /\ pc = "spectra:reached" => stack[1] = "solve_inflation:end"
     /\ pc # "primordial_init" /\ ppm'.lnpk # ppm.lnpk =>
          /\ pc = "spectra:one_k" /\ ret = SUCCESS
          /\ sp'.index_k = sp.index_k + 1
          /\ \A m \in DOMAIN ppm.lnpk : \A i \in DOMAIN ppm.lnpk[m] :
               IF i = sp.index_k * ppm.ic_ic_size[m]
               THEN ppm'.lnpk[m][i] =
                      (IF m = ppt.index_md_scalars THEN Log(sp.curvature)
                       ELSE Log(sp.tensors))
               ELSE ppm'.lnpk[m][i] = ppm.lnpk[m][i]
     /\ pc \in {"spectra:for", "spectra:reached", "spectra:one_k"}
          /\ pc' \in {"spectra:for", "spectra:reached", "spectra:one_k"} =>
          sp'.index_k \in {sp.index_k, sp.index_k + 1}]_vars

\* the whole sequence has run: the solver has returned with every entry of
\* the table written, the last index included
C19_Witness ==
  /\ pc = "primordial_init:spline" /\ ret = SUCCESS
  /\ si.a_pivot = 0 /\ sp.index_k = 0
  /\ ppm.lnk_size >= 3
  /\ ppm.lnpk[ppt.index_md_scalars][ppm.lnk_size - 1] # 0
  /\ ppm.lnpk[ppt.index_md_tensors][ppm.lnk_size - 1] # 0

\* C20: no workspace outlives the call that made it. An integrator workspace
\* exists only while the routine that initialised it is running, and the
\* vectors y, y_ini and dy only while primordial_inflation_solve_inflation is,
\* whether the call ends in success or in an error
C20_NothingOutlivesItsCall ==
  /\ "evolve_background" \in gi => pc = "evolve_background:while"
  /\ "reach_aH" \in gi => pc = "reach_aH:while"
  /\ "one_k" \in gi => pc \in {"one_k:do", "one_k:end"}
  /\ heap # {} => pc \notin {"primordial_init", "primordial_init:spline", "done"}

\* C23: primordial_inflation_find_attractor evaluates the potential for V_0
\* and dV_0 at its local phi before phi is given the value phi_0, so at a
\* value the local happens to hold. These V_0 and dV_0 give the first
\* slow-roll estimate, are kept for the whole search, set the step
\* dV_0/V_0/16/pi of the trial point in every turn, and V_0 enters the H_0
\* that is returned
C23_GuessFromUnassignedPhi ==
  [][/\ pc = "find_attractor" =>
          \E phi \in Uninitialized :
            LET v == primordial_inflation_potential(ppm, phi)
            IN  /\ fa'.V_0 = v.V /\ fa'.dV_0 = v.dV
                /\ fa'.dphidt_0new = Div(Div(-v.dV, R(3)), Sqrt(Mul(EightPiOverThree, v.V)))
                /\ fa'.phi = fa.phi_0
     /\ pc \in {"find_attractor:while", "find_attractor:evolved"}
          /\ pc' \in {"find_attractor:while", "evolve_background"} =>
          fa'.V_0 = fa.V_0 /\ fa'.dV_0 = fa.dV_0
     /\ pc = "find_attractor:while" /\ pc' = "evolve_background" =>
          /\ fa'.phi = fa.phi + Div(Div(Div(fa.dV_0, fa.V_0), R(16)), PI)
          /\ y'.phi = fa'.phi
     /\ pc = "find_attractor:while" /\ pc' = "solve_inflation:pivot" /\ ret' = SUCCESS =>
          si'.H_pivot = Sqrt(Mul(EightPiOverThree,
                                 Mul(Mul(HALF, fa.dphidt_0new), fa.dphidt_0new) + fa.V_0))
     /\ pc = "find_attractor:while" /\ pc' = "solve_inflation:try" /\ ret' = SUCCESS =>
          si'.H_try = Sqrt(Mul(EightPiOverThree,
                               Mul(Mul(HALF, fa.dphidt_0new), fa.dphidt_0new) + fa.V_0))]_vars

\* a search at a phi_0 other than the values the local may hold has made a
\* turn, with a V_0 and a dV_0 that are not those of the potential at phi_0
C23_Witness ==
  /\ pc = "find_attractor:while"
  /\ fa.counter >= 1
  /\ fa.phi_0 \notin Uninitialized
  /\ fa.V_0 # primordial_inflation_potential(ppm, fa.phi_0).V
  /\ fa.dV_0 # primordial_inflation_potential(ppm, fa.phi_0).dV

(***************************************************************************)
(* SpecPivot: primordial_init with an inflationary potential, a pivot      *)
(* scale below or inside the range of the table, and a step dlnk that      *)
(* leaves the points ln k_pivot +/- dlnk inside or outside that range      *)
(***************************************************************************)
PivotScales == {R(1), R(4)}

InitPivot ==
  /\ \E precision \in {HALF, 0},
        ratio_min \in {ONE + HALF, ONE + 5 * (ONE \div 8)},
        k_per_decade \in {R(2), R(3)} :
       ppr = [Precision EXCEPT
                !.primordial_inflation_attractor_precision_pivot = precision,
                !.primordial_inflation_ratio_min = ratio_min,
                !.k_per_decade_primordial = k_per_decade]
  /\ \E has_tensors \in BOOLEAN, k_max \in {R(4), R(8)} :
       ppt = Perturbs(has_tensors, FALSE, FALSE, R(2), k_max)
  /\ \E V1 \in {-R(4), 0}, V3 \in {0, R(200)}, k_pivot \in PivotScales :
       ppm = [Primordial(inflation_V, R(1), 0) EXCEPT
                !.k_pivot = k_pivot, !.V1 = V1, !.V3 = V3]
  /\ pc = "primordial_init"
  /\ ret = SUCCESS
  /\ call = NoCall
  /\ output = [i \in 0 .. MaxPairs - 1 |-> 0]
  /\ InflationIdle

SpecPivot == InitPivot /\ [][Next]_vars

\* C24: when primordial_inflation_solve_inflation hands y_ini to
\* primordial_inflation_spectra, the shooting loop has called the attractor
\* search at least once, and the field velocity of y_ini is a_try times the
\* dphidt_try which that search returned
C24_InitialStateAssigned ==
  [][pc = "solve_inflation:while" /\ pc' = "spectra" =>
       /\ si.counter >= 1
       /\ y_ini'.a = si.a_try
       /\ y_ini'.phi = si.phi_try
       /\ y_ini'.dphi = Mul(si.a_try, si.dphidt_try)]_vars

\* the three points ln k_pivot, ln k_pivot + dlnk and ln k_pivot - dlnk, with
\* dlnk = ln 10 / k_per_decade_primordial
PivotPoints ==
  LET dlnk == Div(Log(R(10)), ppr.k_per_decade_primordial)
  IN  {Log(ppm.k_pivot), Log(ppm.k_pivot) + dlnk, Log(ppm.k_pivot) - dlnk}

PivotPointsInside ==
  \A lnk \in PivotPoints : ppm.lnk[0] <= lnk /\ lnk <= ppm.lnk[ppm.lnk_size - 1]

\* the value of the table of one mode at one point
TableAt(index_mode, lnk) ==
  primordial_spectrum_at_k(Splined(ppm), index_mode, logarithmic, lnk,
                           [i \in 0 .. 0 |-> 0]).output[0]

\* C25: with an inflationary potential, once primordial_inflation_solve_inflation
\* has returned a success, primordial_init returns a success only if
\* ln k_pivot, ln k_pivot + dlnk and ln k_pivot - dlnk all lie within
\* [lnk[0], lnk[lnk_size-1]], and a failure that leaves the spectral
\* parameters as they were otherwise; on success A_s, n_s, alpha_s (and r, n_t,
\* alpha_t when tensors are requested) are the value, the centred difference
\* and the second difference of the table at these three points
C25_PivotInsideOrError ==
  [][pc = "primordial_init:spline" /\ ret = SUCCESS =>
       LET dlnk == Div(Log(R(10)), ppr.k_per_decade_primordial)
           lnk == Log(ppm.k_pivot)
           s == ppt.index_md_scalars
           t == ppt.index_md_tensors
       IN  /\ pc' = "done"
           /\ ret' = SUCCESS => PivotPointsInside
           /\ ~PivotPointsInside =>
                /\ ret' = FAILURE
                /\ \A f \in {"A_s", "n_s", "alpha_s", "r", "n_t", "alpha_t"} :
                     ppm'[f] = ppm[f]
           /\ ret' = SUCCESS =>
                /\ ppm'.A_s = Exp(TableAt(s, lnk))
                /\ ppm'.n_s = Div(TableAt(s, lnk + dlnk) - TableAt(s, lnk - dlnk),
                                  Mul(R(2), dlnk)) + ONE
                /\ ppm'.alpha_s = Div(TableAt(s, lnk + dlnk) - Mul(R(2), TableAt(s, lnk))
                                        + TableAt(s, lnk - dlnk), Pow(dlnk, 2))
                /\ ppt.has_tensors =>
                     /\ ppm'.r = Div(Exp(TableAt(t, lnk)), ppm'.A_s)
                     /\ ppm'.n_t = Div(TableAt(t, lnk + dlnk) - TableAt(t, lnk - dlnk),
                                       Mul(R(2), dlnk))
                     /\ ppm'.alpha_t = Div(TableAt(t, lnk + dlnk) - Mul(R(2), TableAt(t, lnk))
                                             + TableAt(t, lnk - dlnk), Pow(dlnk, 2))
                /\ ~ppt.has_tensors =>
                     ppm'.r = ppm.r /\ ppm'.n_t = ppm.n_t /\ ppm'.alpha_t = ppm.alpha_t]_vars

\* the spectra have been computed and splined, ln k_pivot lies inside the
\* table but ln k_pivot + dlnk or ln k_pivot - dlnk does not, and
\* primordial_init has returned a failure
C25_Witness ==
  /\ pc = "done"
  /\ ret = FAILURE
  /\ ppm.primordial_spec_type = inflation_V
  /\ ppm.ddlnpk = TRUE
  /\ ppm.lnk[0] <= Log(ppm.k_pivot)
  /\ Log(ppm.k_pivot) <= ppm.lnk[ppm.lnk_size - 1]
  /\ ~PivotPointsInside

(***************************************************************************)
(* SpecRequest: primordial_init for every request of modes, initial        *)
(* conditions and spectrum type                                            *)
(***************************************************************************)
InitRequest ==
  /\ ppr = Precision
  /\ \E has_perturbations \in BOOLEAN, has_scalars \in BOOLEAN,
        has_vectors \in BOOLEAN, has_tensors \in BOOLEAN,
        iso \in {"none", "bi", "cdi", "nid", "niv"} :
       /\ has_scalars \/ has_vectors \/ has_tensors
       /\ ppt = Requested(has_perturbations, has_scalars, has_vectors, has_tensors, iso)
  /\ \E type \in {analytic_Pk, inflation_V, another_type} :
       ppm = [Primordial(type, R(1), 0) EXCEPT !.k_pivot = R(4)]
  /\ pc = "primordial_init"
  /\ ret = SUCCESS
  /\ call = NoCall
  /\ output = [i \in 0 .. MaxPairs - 1 |-> 0]
  /\ InflationIdle

SpecRequest == InitRequest /\ [][Next]_vars

\* a request the inflationary module cannot serve, or a spectrum type that is
\* not coded
Unserved ==
  \/ /\ ppm.primordial_spec_type = inflation_V
     /\ \/ ~ppt.has_scalars \/ ~ppt.has_tensors \/ ppt.has_vectors
        \/ ppt.has_bi \/ ppt.has_cdi \/ ppt.has_nid \/ ppt.has_niv
  \/ ppm.primordial_spec_type \notin {analytic_Pk, inflation_V}

\* primordial_init has not entered the inflation solver, and has returned an
\* error if it has returned
RefusedAtOnce ==
  /\ pc \in {"primordial_init", "done"}
  /\ stack = << >> /\ y = YZero /\ y_ini = YZero /\ gi = {} /\ heap = {}
  /\ pc = "done" => ret = FAILURE

\* C16 as stated: with inflation_V and no scalars, no tensors, vectors or an
\* isocurvature kind requested, and with any spectrum type other than
\* analytic_Pk and inflation_V, primordial_init always returns an error,
\* before any inflation solving
C16_AlwaysRefused == Unserved => RefusedAtOnce

\* C16: the same when perturbations are requested; primordial_init returns
\* success at once when they are not, whatever the spectrum type
C16_RefusedWhenRequested == ppt.has_perturbations /\ Unserved => RefusedAtOnce

\* primordial_init has returned on a request for inflation_V with scalars and
\* tensors, no vectors, and the niv kind as the only thing in the way
C16_Witness ==
  /\ pc = "done" /\ ret = FAILURE
  /\ ppm.primordial_spec_type = inflation_V
  /\ ppt.has_perturbations /\ ppt.has_scalars /\ ppt.has_tensors /\ ~ppt.has_vectors
  /\ ppt.has_niv

(***************************************************************************)
(* SpecAttractor: primordial_inflation_find_attractor called twice with    *)
(* the same arguments                                                      *)
(***************************************************************************)
\* what the caller has in hand after a call
Outcome == IF ret = FAILURE THEN <<FAILURE>> ELSE <<SUCCESS, twice.H_0, twice.dphidt_0>>

InitAttractor ==
  /\ ppr = Precision
  /\ ppt = Perturbs(TRUE, FALSE, FALSE, R(2), R(8))
  /\ \E V3 \in {0, R(200)} :
       ppm = primordial_inflation_indices(
               [Primordial(inflation_V, R(1), 0) EXCEPT !.V3 = V3])
  /\ pc = "attractor"
  /\ ret = SUCCESS
  /\ call = NoCall
  /\ output = [i \in 0 .. MaxPairs - 1 |-> 0]
  /\ stack = << >>
  /\ y = YZero /\ dy = YZero /\ y_ini = YZero
  /\ si = SiZero /\ sp = SpZero /\ ok = OkZero
  /\ fa = FaZero /\ eb = EbZero /\ ra = RaZero
  /\ gi = {} /\ heap = {}
  /\ error_message = ""
  /\ visited = FALSE
  /\ known = [on |-> TRUE, map |-> {}]
  /\ access = NoAccess
  /\ \E phi_0 \in {0, -(ONE \div 8)}, precision \in {HALF, ONE \div 8} :
       twice = [TwiceOff EXCEPT !.phi_0 = phi_0, !.precision = precision]

\* a call with the arguments kept in twice
AttractorCall(cont) ==
  /\ fa' = [FaZero EXCEPT !.phi_0 = twice.phi_0, !.precision = twice.precision,
                          !.out = "twice"]
  /\ Call("find_attractor", cont)

attractor_first ==
  /\ pc = "attractor"
  /\ AttractorCall("attractor:first")
  /\ UNCHANGED <<ppm, y, dy, y_ini, si, sp, ok, eb, ra, gi, heap, visited, known>>
  /\ UNCHANGED fixed

attractor_second ==
  /\ pc = "attractor:first"
  /\ twice' = [twice EXCEPT !.done = 1, !.first = Outcome]
  /\ AttractorCall("attractor:second")
  /\ UNCHANGED <<ppm, y, dy, y_ini, si, sp, ok, eb, ra, gi, heap, visited, known>>
  /\ UNCHANGED <<ppr, ppt, call, output, access>>

attractor_end ==
  /\ pc = "attractor:second"
  /\ twice' = [twice EXCEPT !.done = 2, !.second = Outcome]
  /\ pc' = "done"
  /\ UNCHANGED <<ppm, ret, stack, error_message, y, dy, y_ini, si, sp, ok, fa, eb,
                 ra, gi, heap, visited, known>>
  /\ UNCHANGED <<ppr, ppt, call, output, access>>

NextAttractor ==
  \/ attractor_first
  \/ attractor_second
  \/ attractor_end
  \/ find_attractor_begin
  \/ find_attractor_while
  \/ find_attractor_evolved
  \/ evolve_background_begin
  \/ evolve_background_while
  \/ evolve_background_end

SpecAttractor == InitAttractor /\ [][NextAttractor]_vars

\* C9: two invocations of find_attractor with the same potential, phi_0 and
\* precision, the integrator returning the same for the same input, leave the
\* caller with the same outcome: the same return code and, on success, the
\* same H_0 and dphidt_0
C9_SameOutcomeTwice == twice.done = 2 => twice.first = twice.second
=============================================================================
